---- MODULE Spec2Model ----
(***************************************************************************)
(* The agent turn engine of the diagram agent (src/agent.py), the SSE      *)
(* transport around it (src/server.py), the tool dispatcher                *)
(* (src/tools/implementations.py) and the session store (src/session.py).  *)
(*                                                                         *)
(* A "request" is one run of the engine: either a message posted to the    *)
(* server (run_turn_stream, relayed by send_message) or one run of the     *)
(* command line loop (run_agent).  Every request owns the session object   *)
(* it works on; the durable store is shared.                               *)
(*                                                                         *)
(* ConversationSession (session.py:21-32) declares no `traces` field and   *)
(* nothing in src/ sets one, yet _store_tool_trace_start and               *)
(* _store_tool_trace_result (agent.py:583, 591, 643, 659) read and write   *)
(* session.traces.  A session built by SessionStore.get therefore raises   *)
(* AttributeError at the first traced call; a caller of run_turn_stream    *)
(* that attaches the mapping to the object does not.  sessionHasTraces     *)
(* says which of the two the streaming engine is given.                    *)
(***************************************************************************)
EXTENDS Integers, Sequences, FiniteSets, TLC

VARIABLES
    apiProvider,       \* cfg.API_PROVIDER: "anthropic" or "openai"
    sessionHasTraces,  \* whether session objects carry a `traces` mapping
    store,             \* the durable store: session id -> persisted session
    req,               \* request -> the engine's local state
    issued,            \* tool calls requested by the provider so far (all requests)
    fn,                \* one call of a telemetry function on its own, or none
    db,                \* SessionStore: the rows, the render index and the render files
    held,              \* session id -> the ConversationSession a handler holds
    th,                \* thread -> the SessionStore operation it is running
    lock,              \* SessionStore._lock: the thread that owns it, or "none"
    now,               \* _utcnow()
    hist               \* what has happened: the ids store_render returned, the ids
                       \* created, the session the last operation persisted
                       \* in full, the calls, crashes and lost files so far

\* The variables of the session storage, and those of the engine.
storage == <<db, held, th, lock, now, hist>>
engine == <<apiProvider, sessionHasTraces, store, req, issued, fn>>

vars == <<apiProvider, sessionHasTraces, store, req, issued, fn, db, held, th, lock, now, hist>>

(***************************************************************************)
(* Bounds of the model.                                                    *)
(***************************************************************************)
\* cfg.MAX_AGENT_TURNS, the turn budget (config.py:29 reads it from the
\* environment, agent.py:1249 from --max-turns; the default is 20).
MaxAgentTurns == 2
\* Tool calls the provider may request, over all responses of all requests.
MaxToolCalls == 2
\* The same, while two messages are being served at once.
MaxServerCalls == 1
\* Tokens in a text handed to the free-text redaction on its own.
MaxTextLen == 3
\* Keys of a tool input, and containers nested inside one of its values.
MaxItems == 2
MaxDepth == 1
\* Runs of equal characters in a string given to the truncation on its own,
\* characters in a run, and the largest byte ceiling tried.
MaxRuns == 2
MaxRunLen == 3
MaxCeiling == 20
\* One-byte characters added to a result text that is about as long as the
\* event ceiling allows, to try every size near the ceiling.
MaxPad == 5

Reqs == {"r1", "r2"}
SessionIds == {"s1"}
Entries == {"stream", "cli"}
Providers == {"anthropic", "openai"}
StopReasons == {"end_turn", "tool_use", "other"}
ToolNames == {"render_tikz", "validate_visual"}
\* A name the provider can put in a tool call that dispatch_tool does not know.
UnknownTool == "no_such_tool"
InputKinds == {"plain", "auth"}
ReplyTexts == {"", "t"}
\* Ids the provider gives to tool calls; 0 stands for a missing or empty id.
ProviderIds == 1..(MaxToolCalls + MaxServerCalls)

(***************************************************************************)
(* Free-text redaction, on texts made of whitespace-separated tokens.      *)
(***************************************************************************)
IsAuthName(t) == t \in {"Authorization:", "authorization:"}
IsScheme(t) == t \in {"Bearer", "bearer", "Basic", "basic"}
LowerScheme(t) == IF t \in {"Bearer", "bearer"} THEN "bearer" ELSE "basic"

\* Tokens that end in "=": what follows them is written without a space, so
\* the token after one belongs to the same whitespace-delimited word.
KeyTokens == {"source=", "FOO=", "OPENAI_API_KEY=", "Password=", "db_token="}
\* The ones the dotenv_line rule takes for a variable name ([A-Z0-9_]{2,}).
DotenvKeys == {"FOO=", "OPENAI_API_KEY="}
\* _ENV_LINE_KEYS followed by "=".
EnvLineKeys == {"OPENAI_API_KEY="}
\* _ENV_SECRET_VALUES: the value of OPENAI_API_KEY, shaped like a vendor key,
\* and the value of a *_PASSWORD variable, shaped like nothing.
EnvSecretValues == {"sk-KEY", "hunter2"}

\* Where the word that starts at token i ends ([^\s"]+ stops at whitespace).
RECURSIVE WordEnd(_, _)
WordEnd(text, i) ==
    IF text[i] \in KeyTokens /\ i < Len(text) THEN WordEnd(text, i + 1) ELSE i

\* pattern.subn of the auth_header rule: every non-overlapping match, left to
\* right, is replaced; the number of matches is returned with the text.
RECURSIVE SubAuthHeader(_, _)
SubAuthHeader(text, i) ==
    IF i > Len(text) THEN [out |-> <<>>, count |-> 0]
    ELSE IF i + 2 <= Len(text) /\ IsAuthName(text[i]) /\ IsScheme(text[i + 1])
         THEN LET rest == SubAuthHeader(text, WordEnd(text, i + 2) + 1)
              IN  [out |-> <<"authorization:", LowerScheme(text[i + 1]), "[REDACTED]">>
                           \o rest.out,
                   count |-> rest.count + 1]
         ELSE LET rest == SubAuthHeader(text, i + 1)
              IN  [out |-> <<text[i]>> \o rest.out, count |-> rest.count]

\* pattern.subn of the header_secret rule: the header name and the word
\* after it become "x-api-key: [REDACTED]".
RECURSIVE SubHeaderSecret(_, _)
SubHeaderSecret(text, i) ==
    IF i > Len(text) THEN [out |-> <<>>, count |-> 0]
    ELSE IF i + 1 <= Len(text) /\ text[i] = "x-api-key:"
         THEN LET rest == SubHeaderSecret(text, WordEnd(text, i + 1) + 1)
              IN  [out |-> <<"x-api-key:", "[REDACTED]">> \o rest.out,
                   count |-> rest.count + 1]
         ELSE LET rest == SubHeaderSecret(text, i + 1)
              IN  [out |-> <<text[i]>> \o rest.out, count |-> rest.count]

\* pattern.subn of the openai_key rule.
RECURSIVE SubOpenaiKey(_, _)
SubOpenaiKey(text, i) ==
    IF i > Len(text) THEN [out |-> <<>>, count |-> 0]
    ELSE LET rest == SubOpenaiKey(text, i + 1)
         IN  IF text[i] = "sk-KEY"
             THEN [out |-> <<"sk-[REDACTED]">> \o rest.out, count |-> rest.count + 1]
             ELSE [out |-> <<text[i]>> \o rest.out, count |-> rest.count]

\* pattern.subn of the dotenv_line rule, on a text of one line: a line that
\* starts with NAME= and has anything after it becomes NAME=[REDACTED].
SubDotenvLine(text) ==
    IF Len(text) >= 2 /\ text[1] \in DotenvKeys
    THEN [out |-> <<text[1], "[REDACTED]">>, count |-> 1]
    ELSE [out |-> text, count |-> 0]

\* re.sub(r"=[^\s]+", "=[REDACTED]", line): every "=" with something glued
\* to it loses the rest of its word.
RECURSIVE SubAssignments(_, _)
SubAssignments(text, i) ==
    IF i > Len(text) THEN <<>>
    ELSE IF text[i] \in KeyTokens /\ i < Len(text)
         THEN <<text[i], "[REDACTED]">>
              \o SubAssignments(text, WordEnd(text, i + 1) + 1)
         ELSE <<text[i]>> \o SubAssignments(text, i + 1)

\* The env_line step: it fires on a line that names one of _ENV_LINE_KEYS
\* followed by "=", and sets the flag whether or not anything was replaced.
EnvLine(text) ==
    IF \E i \in DOMAIN text : text[i] \in EnvLineKeys
    THEN [out |-> SubAssignments(text, 1), count |-> 1]
    ELSE [out |-> text, count |-> 0]

\* The env_value step: text.replace of every secret environment value still
\* in the text.
RECURSIVE SubEnvValue(_, _)
SubEnvValue(text, i) ==
    IF i > Len(text) THEN [out |-> <<>>, count |-> 0]
    ELSE LET rest == SubEnvValue(text, i + 1)
         IN  IF text[i] \in EnvSecretValues
             THEN [out |-> <<"[REDACTED_ENV]">> \o rest.out, count |-> rest.count + 1]
             ELSE [out |-> <<text[i]>> \o rest.out, count |-> rest.count]

\* The rules of one pass, in the order the loop applies them: the patterns
\* of _TEXT_REDACTION_PATTERNS that the tokens can match, then the env_line
\* step and the env_value step.
TextRules ==
    <<"auth_header", "header_secret", "openai_key", "dotenv_line", "env_line",
      "env_value">>

\* What one rule makes of the text, and how many times it matched.
Subn(rule_name, text) ==
    CASE rule_name = "auth_header" -> SubAuthHeader(text, 1)
      [] rule_name = "header_secret" -> SubHeaderSecret(text, 1)
      [] rule_name = "openai_key" -> SubOpenaiKey(text, 1)
      [] rule_name = "dotenv_line" -> SubDotenvLine(text)
      [] rule_name = "env_line" -> EnvLine(text)
      [] OTHER -> SubEnvValue(text, 1)

\* `text, count = pattern.subn(replacement, text)`, and `if count:` the flag
\* set and the rule's name added to the applied rules.
ApplyRule(p, k) ==
    LET r == Subn(TextRules[k], p.text)
    IN  [text |-> r.out,
         changed |-> p.changed \/ r.count > 0,
         rules |-> IF r.count > 0 THEN p.rules \cup {TextRules[k]} ELSE p.rules]

\* A pass that stops at the first rule that matches and reports no change.
RECURSIVE ApplyRulesFirstMatch(_, _)
ApplyRulesFirstMatch(p, k) ==
    IF k > Len(TextRules) THEN p
    ELSE CHOOSE q \in {IF n.changed THEN [n EXCEPT !.changed = FALSE]
                       ELSE ApplyRulesFirstMatch(n, k + 1) : n \in {ApplyRule(p, k)}} : TRUE

\* The rules from the k-th on, each applied to what the one before returned.
RECURSIVE ApplyRules(_, _)
ApplyRules(p, k) ==
    IF k > Len(TextRules) THEN p
    ELSE CHOOSE q \in {ApplyRules(n, k + 1) : n \in {ApplyRule(p, k)}} : TRUE

\* One pass of the `while True` loop of _redact_text: the rules in order, and
\* `changed` as the loop computes it (a rule fired, whether or not the text
\* is different afterwards).
RedactPass(text) == ApplyRules([text |-> text, changed |-> FALSE, rules |-> {}], 1)

\* _redact_text from its first pass to its return: the text, changed_any and
\* the rules added.  A pass in which a rule fired and left the text as it was
\* is followed by the same pass for ever: the function does not return.
RECURSIVE RedactTextFrom(_)
RedactTextFrom(p) ==
    CHOOSE out \in
        {IF ~pass.changed
         THEN [returns |-> TRUE, text |-> pass.text, changed |-> p.changed, rules |-> p.rules]
         ELSE IF pass.text = p.text
              THEN [returns |-> FALSE, text |-> pass.text, changed |-> TRUE,
                    rules |-> p.rules \cup pass.rules]
              ELSE RedactTextFrom([text |-> pass.text, changed |-> TRUE,
                                   rules |-> p.rules \cup pass.rules])
           : pass \in {RedactPass(p.text)}} : TRUE

RedactTextOf(text) == RedactTextFrom([text |-> text, changed |-> FALSE, rules |-> {}])

(***************************************************************************)
(* Sizes and truncation.  A string is a sequence of runs, n characters of  *)
(* one class each; a class says how many bytes one character takes in      *)
(* UTF-8 and in a JSON string literal with ensure_ascii.                   *)
(***************************************************************************)
\* _TRUNCATION_SUFFIX is 14 characters, of one byte each.
SuffixBytes == 14

\* Bytes of one character: "ascii" a, "quote" a double quote or backslash,
\* "ctl" a control character, "two" e-acute, "three" the euro sign, "four" a
\* character outside the basic plane; "suffix" a character of the marker;
\* "b64" a character of base64 data and "pad" its padding character =.
Utf8Width ==
    [ascii |-> 1, quote |-> 1, ctl |-> 1, two |-> 2, three |-> 3, four |-> 4,
     suffix |-> 1, b64 |-> 1, pad |-> 1]
\* The same in json.dumps: itself, \", \u00XX, é, €, a surrogate pair.
JsonWidth ==
    [ascii |-> 1, quote |-> 2, ctl |-> 6, two |-> 6, three |-> 6, four |-> 12,
     suffix |-> 1, b64 |-> 1, pad |-> 1]

Run(c, n) == [c |-> c, n |-> n]

\* _utf8_size
RECURSIVE Utf8Size(_)
Utf8Size(value) ==
    IF value = <<>> THEN 0
    ELSE Head(value).n * Utf8Width[Head(value).c] + Utf8Size(Tail(value))

\* `for ch in value`: the characters taken while the next one fits the
\* budget; the loop breaks at the first that does not.
RECURSIVE TakeChars(_, _)
TakeChars(value, budget) ==
    IF value = <<>> THEN <<>>
    ELSE LET w == Utf8Width[Head(value).c]
             k == IF Head(value).n * w <= budget THEN Head(value).n ELSE budget \div w
         IN  IF k = Head(value).n
             THEN <<Head(value)>> \o TakeChars(Tail(value), budget - k * w)
             ELSE IF k = 0 THEN <<>> ELSE <<Run(Head(value).c, k)>>

\* The same function with the whole ceiling as budget for the characters.
TruncateKeepsCeiling(value, max_bytes) ==
    IF Utf8Size(value) <= max_bytes THEN [text |-> value, truncated |-> FALSE]
    ELSE IF max_bytes <= SuffixBytes
         THEN [text |-> IF max_bytes = 0 THEN <<>> ELSE <<Run("suffix", max_bytes)>>,
               truncated |-> TRUE]
         ELSE [text |-> TakeChars(value, max_bytes) \o <<Run("suffix", SuffixBytes)>>,
               truncated |-> TRUE]

\* _truncate_to_bytes, for a ceiling that is not negative.
TruncateToBytes(value, max_bytes) ==
    IF Utf8Size(value) <= max_bytes THEN [text |-> value, truncated |-> FALSE]
    ELSE IF max_bytes <= SuffixBytes
         THEN [text |-> IF max_bytes = 0 THEN <<>> ELSE <<Run("suffix", max_bytes)>>,
               truncated |-> TRUE]
         ELSE [text |-> TakeChars(value, max_bytes - SuffixBytes)
                          \o <<Run("suffix", SuffixBytes)>>,
               truncated |-> TRUE]

(***************************************************************************)
(* The result of a tool and what of it goes into the trace.                *)
(***************************************************************************)
\* Most bytes of a rendered image.
MaxImageBytes == 7
LimitArtifactKind == 64
LimitArtifactReason == 64
ArtifactOmittedLimit == 16

\* The names in a manifest entry and their lengths.
NameLen ==
    ("image/png" :> 9) @@ ("image" :> 5) @@ ("unknown" :> 7)
    @@ ("binary_not_streamed" :> 19) @@ ("...[truncated]" :> 14)

Backends == {"tikz", "matplotlib", "graphviz"}
BackendLen == ("tikz" :> 4) @@ ("matplotlib" :> 10) @@ ("graphviz" :> 8)

\* base64.standard_b64encode(image_bytes).decode(): four characters for each
\* three bytes, the last group padded with =.
B64Encode(nbytes) ==
    LET groups == (nbytes + 2) \div 3
        padding == (3 - (nbytes % 3)) % 3
    IN  IF nbytes = 0 THEN <<>>
        ELSE IF padding = 0 THEN <<[c |-> "b64", n |-> 4 * groups]>>
             ELSE <<[c |-> "b64", n |-> 4 * groups - padding], [c |-> "pad", n |-> padding]>>

\* _estimate_base64_decoded_size: data.rstrip("="), three bytes for four
\* characters.
EstimateBase64DecodedSize(data) ==
    LET stripped == IF data # <<>> /\ data[Len(data)].c = "pad"
                    THEN SubSeq(data, 1, Len(data) - 1) ELSE data
        chars == IF stripped = <<>> THEN 0 ELSE stripped[1].n
    IN  (chars * 3) \div 4

\* The content blocks _render returns for a rendered image, and a string
\* result.
ImageBlock(nbytes) ==
    [type |-> "image", has_source |-> TRUE, source_type |-> "base64",
     media_type |-> "image/png", data |-> B64Encode(nbytes), text |-> <<>>]
TextBlock(text) ==
    [type |-> "text", has_source |-> FALSE, source_type |-> "", media_type |-> "",
     data |-> <<>>, text |-> text]
RenderedBlocks(backend, nbytes) ==
    <<ImageBlock(nbytes),
      TextBlock(<<[c |-> "ascii", n |-> 28 + BackendLen[backend] + 36]>>)>>
StrContent(text) == [kind |-> "str", s |-> text, blocks |-> <<>>]
BlockContent(blocks) == [kind |-> "blocks", s |-> <<>>, blocks |-> blocks]
NoContent == [kind |-> "none", s |-> <<>>, blocks |-> <<>>]
NoArtifacts == [has_binary |-> FALSE, omitted |-> <<>>]

\* The manifest entry of a block that is not text.
OmittedEntry(block) ==
    [kind |-> IF block.has_source /\ block.media_type # "" THEN block.media_type
              ELSE block.type,
     has_size |-> block.has_source /\ block.source_type = "base64",
     size_bytes |-> IF block.has_source /\ block.source_type = "base64"
                    THEN EstimateBase64DecodedSize(block.data) ELSE 0,
     reason |-> "binary_not_streamed"]

\* "\n".join(texts)
RECURSIVE JoinLines(_)
JoinLines(texts) ==
    IF texts = <<>> THEN <<>>
    ELSE IF Len(texts) = 1 THEN texts[1]
         ELSE texts[1] \o <<[c |-> "ctl", n |-> 1]>> \o JoinLines(Tail(texts))

\* A projection that puts the data of every block into the text.
ProjectEverything(content) ==
    [text |-> [some |-> TRUE,
               s |-> IF content.kind = "str" THEN content.s
                     ELSE JoinLines([i \in DOMAIN content.blocks |->
                                       content.blocks[i].text \o content.blocks[i].data])],
     artifacts |-> NoArtifacts]

\* _project_result_text: the text of the text blocks that have some, a
\* manifest entry for every other block.
ProjectResultText(content) ==
    IF content.kind = "str"
    THEN [text |-> [some |-> TRUE, s |-> content.s], artifacts |-> NoArtifacts]
    ELSE LET blocks == content.blocks
             texts == SelectSeq([i \in DOMAIN blocks |-> blocks[i]],
                                LAMBDA b : b.type = "text" /\ b.text # <<>>)
             others == SelectSeq([i \in DOMAIN blocks |-> blocks[i]],
                                 LAMBDA b : b.type # "text")
             entries == [i \in DOMAIN others |-> OmittedEntry(others[i])]
         IN  [text |-> IF texts = <<>> THEN [some |-> FALSE, s |-> <<>>]
                       ELSE [some |-> TRUE,
                             s |-> JoinLines([i \in DOMAIN texts |-> texts[i].text])],
              artifacts |->
                 [has_binary |-> others # <<>>,
                  omitted |-> SubSeq(entries, 1,
                                     IF Len(entries) < ArtifactOmittedLimit
                                     THEN Len(entries) ELSE ArtifactOmittedLimit)]]

(***************************************************************************)
(* The payload of a trace event and its size as JSON.                      *)
(***************************************************************************)
MaxEventBytes == 65536
LimitTool == 64
LimitToolUseId == 128
LimitInput == 256
LimitInputFull == 16384
LimitResultSummary == 512
LimitResultText == 32768
LimitErrorName == 128
LimitErrorMessage == 1024
LimitRule == 64
RuleLimit == 16
\* range(8) of the two loops that recompute size.event_bytes
SizePasses == 8

\* A field that holds a string or None.
Some(s) == [some |-> TRUE, s |-> s]
None == [some |-> FALSE, s |-> <<>>]

RECURSIVE Sum(_)
Sum(sizes) == IF sizes = <<>> THEN 0 ELSE Head(sizes) + Sum(Tail(sizes))

\* Decimal digits of a number that is not negative.
RECURSIVE Digits(_)
Digits(n) == IF n < 10 THEN 1 ELSE 1 + Digits(n \div 10)

\* Bytes of json.dumps of a string, of an optional string, of a bool, of a
\* list and of an object whose members have the given sizes (", " between
\* members, `"key": ` before each value).
JsonStr(value) == 2 + Sum([i \in DOMAIN value |-> value[i].n * JsonWidth[value[i].c]])
JsonOpt(field) == IF field.some THEN JsonStr(field.s) ELSE 4
JsonBool(b) == IF b THEN 4 ELSE 5
JsonList(sizes) == IF sizes = <<>> THEN 2 ELSE 2 + Sum(sizes) + 2 * (Len(sizes) - 1)
Member(key_len, size) == key_len + 4 + size
JsonObject(members) == 2 + Sum(members) + 2 * (Len(members) - 1)

\* json.dumps(payload) of a start payload and of a result payload, member by
\* member: the key's length and the value's size.  trace_v, seq and
\* duration_ms take one digit and ts_ms thirteen.
JsonSize(p) ==
    LET redaction ==
            JsonObject(<<Member(4, 8), Member(7, JsonBool(p.applied)),
                         Member(5, JsonList([i \in DOMAIN p.rules |-> JsonStr(p.rules[i])]))>>)
        size ==
            JsonObject(<<Member(11, Digits(p.event_bytes)),
                         Member(15, JsonBool(p.event_truncated))>>)
        error ==
            IF p.error.some
            THEN JsonObject(<<Member(4, JsonStr(p.error.name)),
                              Member(7, JsonStr(p.error.message)),
                              Member(5, 4), Member(15, 5)>>)
            ELSE 4
        omitted ==
            [i \in DOMAIN p.omitted |->
                JsonObject(<<Member(4, 2 + NameLen[p.omitted[i].kind]),
                             Member(10, IF p.omitted[i].has_size
                                        THEN Digits(p.omitted[i].size_bytes) ELSE 4),
                             Member(6, 2 + NameLen[p.omitted[i].reason])>>)]
        artifacts ==
            JsonObject(<<Member(10, JsonBool(p.has_binary)), Member(7, JsonList(omitted))>>)
    IN  IF p.shape = "start"
        THEN JsonObject(<<Member(4, JsonStr(p.tool)), Member(5, JsonStr(p.input)),
                          Member(7, 1), Member(11, JsonStr(p.tool_use_id)),
                          Member(5, 13), Member(3, 1),
                          Member(10, JsonOpt(p.input_full)),
                          Member(21, Digits(p.input_full_size_bytes)),
                          Member(15, JsonBool(p.input_truncated)),
                          Member(9, redaction), Member(4, size)>>)
        ELSE JsonObject(<<Member(4, JsonStr(p.tool)), Member(7, 1),
                          Member(11, JsonStr(p.tool_use_id)), Member(5, 13),
                          Member(3, 1),
                          Member(6, IF p.error.some THEN 7 ELSE 4),
                          Member(11, 1),
                          Member(14, JsonOpt(p.result_summary)),
                          Member(11, JsonOpt(p.result_text)),
                          Member(22, IF p.has_result_size
                                     THEN Digits(p.result_text_size_bytes) ELSE 4),
                          Member(16, JsonBool(p.result_truncated)),
                          Member(5, error), Member(9, artifacts),
                          Member(9, redaction), Member(4, size)>>)

\* What the fields of the payload take before they are serialized.
RawSize(p) ==
    Utf8Size(p.tool) + Utf8Size(p.tool_use_id) + Utf8Size(p.input)
    + Utf8Size(p.input_full.s) + Utf8Size(p.result_summary.s) + Utf8Size(p.result_text.s)

\* event_size(): _utf8_size(json.dumps(payload))
EventSize(p) == JsonSize(p)

\* The bytes of `data: {json.dumps(payload)}` the server sends.
ShippedBytes(p) == JsonSize(p)

\* A payload with every field empty.
EmptyPayload(shape) ==
    [shape |-> shape, tool |-> <<>>, tool_use_id |-> <<>>, input |-> <<>>,
     input_full |-> None, input_full_size_bytes |-> 0, input_truncated |-> FALSE,
     result_summary |-> None, result_text |-> None, has_result_size |-> FALSE,
     result_text_size_bytes |-> 0, result_truncated |-> FALSE,
     error |-> [some |-> FALSE, name |-> <<>>, message |-> <<>>],
     has_binary |-> FALSE, omitted |-> <<>>,
     applied |-> FALSE, rules |-> <<>>, event_bytes |-> 0, event_truncated |-> FALSE]

\* _build_tool_start_payload, from the redacted summary and full input to
\* the payload it gives to _finalize_trace_payload.
StartPayload(tool, tool_use_id, summary_redacted, input_full, rules) ==
    LET limited == TruncateToBytes(input_full, LimitInputFull)
    IN  [EmptyPayload("start") EXCEPT
            !.tool = tool, !.tool_use_id = tool_use_id, !.input = summary_redacted,
            !.input_full = Some(limited.text),
            !.input_full_size_bytes = Utf8Size(input_full),
            !.input_truncated = limited.truncated,
            !.applied = rules # <<>>, !.rules = rules]

\* The class name of the exception a tool raised, and "Tool failed: <name>".
ErrorName == <<Run("ascii", 10)>>
ToolFailedSummary == <<Run("ascii", 23)>>

\* _build_tool_result_payload, from the redacted result text (None when the
\* result has no text) or the redacted str() of the exception.
ResultPayload(tool, tool_use_id, text, is_error, rules) ==
    LET limited == TruncateToBytes(text.s, LimitResultText)
        summary == TruncateToBytes(limited.text, LimitResultSummary).text
    IN  [EmptyPayload("result") EXCEPT
            !.tool = tool, !.tool_use_id = tool_use_id,
            !.result_text = IF text.some THEN Some(limited.text) ELSE None,
            !.has_result_size = text.some,
            !.result_text_size_bytes = Utf8Size(text.s),
            !.result_truncated = text.some /\ limited.truncated,
            !.result_summary = IF is_error THEN Some(ToolFailedSummary)
                               ELSE IF text.some /\ summary # <<>> THEN Some(summary)
                                    ELSE None,
            !.error = IF is_error
                      THEN [some |-> TRUE, name |-> ErrorName, message |-> text.s]
                      ELSE @,
            !.applied = rules # <<>>, !.rules = rules]

\* The result payload with the artifacts of the projection.
WithArtifacts(p, artifacts) ==
    [p EXCEPT !.has_binary = artifacts.has_binary, !.omitted = artifacts.omitted]

\* _truncate_to_bytes of a name of a manifest entry.
TruncateName(name, max_bytes) ==
    IF NameLen[name] <= max_bytes THEN name ELSE "...[truncated]"

\* _clamp_string_list
ClampStringList(values, max_items, max_item_bytes) ==
    [i \in 1..(IF Len(values) < max_items THEN Len(values) ELSE max_items) |->
        TruncateToBytes(values[i], max_item_bytes).text]

\* _finalize_trace_payload up to `payload["size"] = {...}`: every field cut
\* to its limit, event_truncated set when finalize cut one.
LimitFields(p) ==
    LET tool == TruncateToBytes(p.tool, LimitTool)
        id == TruncateToBytes(p.tool_use_id, LimitToolUseId)
        name == TruncateToBytes(p.error.name, LimitErrorName)
        message == TruncateToBytes(p.error.message, LimitErrorMessage)
        result_text == TruncateToBytes(p.result_text.s, LimitResultText)
        input_full == TruncateToBytes(p.input_full.s, LimitInputFull)
        result_summary == TruncateToBytes(p.result_summary.s, LimitResultSummary)
        input == TruncateToBytes(p.input, LimitInput)
    IN  [p EXCEPT
            !.tool = tool.text, !.tool_use_id = id.text,
            !.rules = ClampStringList(p.rules, RuleLimit, LimitRule),
            !.error = IF p.error.some
                      THEN [some |-> TRUE, name |-> name.text, message |-> message.text]
                      ELSE @,
            !.result_text = IF @.some THEN Some(result_text.text) ELSE @,
            !.result_truncated = @ \/ (p.result_text.some /\ result_text.truncated),
            !.input_full = IF @.some THEN Some(input_full.text) ELSE @,
            !.input_truncated = @ \/ (p.input_full.some /\ input_full.truncated),
            !.result_summary = IF @.some THEN Some(result_summary.text) ELSE @,
            !.input = input.text,
            !.omitted = [i \in 1..(IF Len(p.omitted) < ArtifactOmittedLimit
                                   THEN Len(p.omitted) ELSE ArtifactOmittedLimit) |->
                            [p.omitted[i] EXCEPT
                                !.kind = TruncateName(@, LimitArtifactKind),
                                !.reason = TruncateName(@, LimitArtifactReason)]],
            !.event_bytes = 0,
            !.event_truncated =
                \/ tool.truncated \/ id.truncated
                \/ (p.error.some /\ (name.truncated \/ message.truncated))
                \/ (p.result_text.some /\ result_text.truncated)
                \/ (p.input_full.some /\ input_full.truncated)
                \/ (p.result_summary.some /\ result_summary.truncated)
                \/ (p.shape = "start" /\ input.truncated)
                \/ \E i \in DOMAIN p.omitted :
                      /\ i <= ArtifactOmittedLimit
                      /\ \/ NameLen[p.omitted[i].kind] > LimitArtifactKind
                         \/ NameLen[p.omitted[i].reason] > LimitArtifactReason]

\* A size loop that stores the size once and does not look again.
SizeOnce(p, passes) == [p EXCEPT !.event_bytes = EventSize(p)]

\* `for _ in range(8)`: event_bytes is set to the size of the event until the
\* size of the event is what event_bytes says, or the passes are used up.
RECURSIVE SizeLoop(_, _)
SizeLoop(p, passes) ==
    IF passes = 0 \/ p.event_bytes = EventSize(p) THEN p
    ELSE SizeLoop([p EXCEPT !.event_bytes = EventSize(p)], passes - 1)

\* The fields dropped with no flag set.
DropUnflagged(p) ==
    IF p.event_bytes > MaxEventBytes
    THEN LET p1 == [p EXCEPT !.result_text = None]
             p2 == IF p1.input_full.some /\ EventSize(p1) > MaxEventBytes
                   THEN [p1 EXCEPT !.input_full = None]
                   ELSE p1
         IN  SizeLoop(p2, SizePasses)
    ELSE p

\* The `if payload["size"]["event_bytes"] > _MAX_EVENT_BYTES` block: the
\* result text dropped, the full input dropped if the event is still too
\* large, the size recomputed.
DropFields(p) ==
    IF p.event_bytes > MaxEventBytes
    THEN LET p0 == [p EXCEPT !.event_truncated = TRUE]
             p1 == IF p0.result_text.some
                   THEN [p0 EXCEPT !.result_text = None, !.result_truncated = TRUE]
                   ELSE p0
             p2 == IF p1.input_full.some /\ EventSize(p1) > MaxEventBytes
                   THEN [p1 EXCEPT !.input_full = None, !.input_truncated = TRUE]
                   ELSE p1
         IN  SizeLoop(p2, SizePasses)
    ELSE p

(***************************************************************************)
(* Key-based redaction of structured values.  A value is a string, an      *)
(* object json.dumps cannot serialize, a dict (its items in insertion      *)
(* order) or a list.                                                       *)
(***************************************************************************)
Str(s) == [t |-> "str", s |-> s]
Obj == [t |-> "obj"]
Dict(items) == [t |-> "dict", items |-> items]
List(items) == [t |-> "list", items |-> items]
Item(k, v) == [k |-> k, v |-> v]

InputKeys == {"source", "Password", "db_token"}
Leaves == {Str("x"), Str("s3cret"), Obj}

\* _is_sensitive_key: the lower-cased key is in _SENSITIVE_EXACT_KEYS or ends
\* in _key, _token, _secret or _password.
IsSensitiveKey(key) == key \in {"Password", "db_token"}

\* Values with containers nested to depth d, one item in each.
RECURSIVE ValuesOfDepth(_)
ValuesOfDepth(d) ==
    IF d = 0 THEN Leaves
    ELSE LET inner == ValuesOfDepth(d - 1)
         IN  Leaves \cup {Dict(<<Item(k, v)>>) : k \in InputKeys, v \in inner}
                    \cup {List(<<v>>) : v \in inner}

\* The tool inputs a provider can send: a dict of up to MaxItems of the
\* keys, written in the order of KeyOrder.
KeyOrder == <<"source", "Password", "db_token">>
Absent == [t |-> "absent"]

ItemsOf(choice) ==
    LET present == SelectSeq(KeyOrder, LAMBDA k : choice[k] # Absent)
    IN  [i \in DOMAIN present |-> Item(present[i], choice[present[i]])]

ToolInputs ==
    {Dict(ItemsOf(choice)) : choice \in
        {c \in [InputKeys -> ValuesOfDepth(MaxDepth) \cup {Absent}] :
            Cardinality({k \in InputKeys : c[k] # Absent}) \in 1..MaxItems}}

\* _redact_structured: the value under a sensitive key becomes "[REDACTED]",
\* the others are redacted in turn; `changed` says whether a key was hit.
RECURSIVE RedactStructured(_)
RedactStructured(value) ==
    IF value.t = "dict"
    THEN LET out == [i \in DOMAIN value.items |->
                        IF IsSensitiveKey(value.items[i].k)
                        THEN [item |-> Item(value.items[i].k, Str("[REDACTED]")),
                              changed |-> TRUE]
                        ELSE LET next == RedactStructured(value.items[i].v)
                             IN  [item |-> Item(value.items[i].k, next.value),
                                  changed |-> next.changed]]
         IN  [value |-> Dict([i \in DOMAIN out |-> out[i].item]),
              changed |-> \E i \in DOMAIN out : out[i].changed]
    ELSE IF value.t = "list"
    THEN LET out == [i \in DOMAIN value.items |-> RedactStructured(value.items[i])]
         IN  [value |-> List([i \in DOMAIN out |-> out[i].value]),
              changed |-> \E i \in DOMAIN out : out[i].changed]
    ELSE [value |-> value, changed |-> FALSE]

(***************************************************************************)
(* The texts made from a structured value.                                 *)
(***************************************************************************)
\* The words "key=" of a summary and "key": of a dump.
KeyEq == [source |-> "source=", Password |-> "Password=", db_token |-> "db_token="]
KeyColon == [source |-> "source:", Password |-> "Password:", db_token |-> "db_token:"]
\* The order of the keys under sort_keys=True.
KeyRank == [Password |-> 1, db_token |-> 2, source |-> 3]

RECURSIVE Concat(_)
Concat(seqs) == IF seqs = <<>> THEN <<>> ELSE Head(seqs) \o Concat(Tail(seqs))

\* str(value) / repr(value): every key and every leaf, in insertion order.
RECURSIVE Repr(_)
Repr(value) ==
    CASE value.t = "str" -> <<value.s>>
      [] value.t = "obj" -> <<"<object>">>
      [] value.t = "dict" ->
            <<"{">> \o Concat([i \in DOMAIN value.items |->
                                  <<KeyColon[value.items[i].k]>> \o Repr(value.items[i].v)])
                    \o <<"}">>
      [] OTHER -> <<"[">> \o Concat([i \in DOMAIN value.items |-> Repr(value.items[i])])
                          \o <<"]">>

\* json.dumps raises TypeError on a value that holds an object.
RECURSIVE Serializable(_)
Serializable(value) ==
    CASE value.t = "str" -> TRUE
      [] value.t = "obj" -> FALSE
      [] value.t = "dict" -> \A i \in DOMAIN value.items : Serializable(value.items[i].v)
      [] OTHER -> \A i \in DOMAIN value.items : Serializable(value.items[i])

\* The items of a dict sorted by key.
RECURSIVE SortedItems(_)
SortedItems(items) ==
    IF items = <<>> THEN <<>>
    ELSE LET m == CHOOSE i \in DOMAIN items :
                      \A j \in DOMAIN items : KeyRank[items[i].k] <= KeyRank[items[j].k]
         IN  <<items[m]>>
             \o SortedItems([j \in 1..(Len(items) - 1) |->
                                IF j < m THEN items[j] ELSE items[j + 1]])

\* json.dumps(value, separators=(",", ":"), sort_keys=True)
RECURSIVE JsonDumps(_)
JsonDumps(value) ==
    CASE value.t = "str" -> <<value.s>>
      [] value.t = "dict" ->
            LET items == SortedItems(value.items)
            IN  <<"{">> \o Concat([i \in DOMAIN items |->
                                      <<KeyColon[items[i].k]>> \o JsonDumps(items[i].v)])
                        \o <<"}">>
      [] OTHER -> <<"[">> \o Concat([i \in DOMAIN value.items |-> JsonDumps(value.items[i])])
                          \o <<"]">>

\* _summarize: "key=repr(value)" for every item of the input.
Summarize(inputs) ==
    Concat([i \in DOMAIN inputs.items |->
               <<KeyEq[inputs.items[i].k]>> \o Repr(inputs.items[i].v)])

\* _redact_jsonish: the structured pass, the dump of its result or, when that
\* cannot be dumped, str() of the value it was given; then the free-text pass.
RedactJsonish(value) ==
    LET structured == RedactStructured(value)
        dumped == Serializable(structured.value)
        text == IF dumped THEN JsonDumps(structured.value) ELSE Repr(value)
        rules == (IF structured.changed THEN {"key_based"} ELSE {})
                 \cup (IF dumped THEN {} ELSE {"non_json_input"})
        redacted == RedactTextOf(text)
    IN  [returns |-> redacted.returns, text |-> redacted.text,
         changed |-> structured.changed \/ redacted.changed,
         rules |-> rules \cup redacted.rules]

\* The text of a tool input, by kind.
InputText(kind) ==
    IF kind = "auth" THEN <<"source=", "Authorization:", "Bearer", "tok">>
    ELSE <<"source=", "w">>

\* The text projected from a tool result (_project_result_text).
ResultText(result) ==
    CASE result = "blocks" -> <<"Rendered", "successfully">>
      [] result = "render_failed" -> <<"Render", "failed", "w">>
      [] result = "render_failed_auth" ->
            <<"Render", "failed", "Authorization:", "Bearer", "tok">>
      [] result = "no_image" -> <<"No", "rendered", "image">>
      [] result = "unknown_tool" -> <<"Unknown", "tool:", UnknownTool>>
      [] result = "nothing_to_save" -> <<"No", "rendered", "image", "to", "save">>
      [] result = "saved" -> <<"Saved", "to", "f">>
      [] OTHER -> <<"{score}">>

(***************************************************************************)
(* Sessions and the durable store.                                         *)
(***************************************************************************)
\* ConversationSession(id): no messages, no renders, no current render.
\* `current` 0 is None; render id "v<n>" is the number n; `image` holds the
\* bytes kept under each render id.
NewSession ==
    [messages |-> <<>>, renders |-> {}, current |-> 0, traces |-> {}, image |-> {}]

\* ConversationSession.store_render
StoreRender(sess, image_bytes) ==
    LET render_id == Cardinality(sess.renders) + 1
    IN  [sess EXCEPT !.renders = @ \cup {render_id}, !.current = render_id,
                     !.image = {e \in @ : e.id # render_id}
                               \cup {[id |-> render_id, bytes |-> image_bytes]}]

\* A row of the store: `renders` are the ids indexed, `image` the bytes of
\* the files written for them.
NoRow == [exists |-> FALSE, messages |-> <<>>, renders |-> {}, current |-> 0, image |-> {}]

\* SessionStore.get: a new session object built from the persisted row.
StoreGet(st, s) ==
    [messages |-> st[s].messages, renders |-> st[s].renders,
     current |-> st[s].current, traces |-> {}, image |-> st[s].image]

\* An update that writes the session into every row of the store.
StoreUpdateEveryRow(st, s, sess) ==
    [x \in DOMAIN st |->
        IF ~st[x].exists THEN st[x]
        ELSE [exists |-> TRUE, messages |-> sess.messages,
              renders |-> st[x].renders \cup sess.renders, current |-> sess.current,
              image |-> st[x].image
                        \cup {e \in sess.image : e.id \notin st[x].renders}]]

\* An update that inserts the renders and leaves the history as it was.
StoreUpdateRendersOnly(st, s, sess) ==
    IF ~st[s].exists THEN st
    ELSE [st EXCEPT ![s].renders = @ \cup sess.renders,
                    ![s].image = @ \cup {e \in sess.image : e.id \notin st[s].renders},
                    ![s].current = sess.current]

\* SessionStore.update: history and current render rewritten, the renders not
\* yet indexed written to their files and inserted.
StoreUpdate(st, s, sess) ==
    IF ~st[s].exists THEN st
    ELSE [st EXCEPT ![s] = [exists |-> TRUE,
                            messages |-> sess.messages,
                            renders |-> @.renders \cup sess.renders,
                            current |-> sess.current,
                            image |-> @.image
                                      \cup {e \in sess.image : e.id \notin @.renders}]]

(***************************************************************************)
(* Tool calls, tool_use ids, messages and events.                          *)
(***************************************************************************)
Tid(src, a, b) == [src |-> src, a |-> a, b |-> b]
NoTid == Tid("none", 0, 0)

\* ToolUseId, with a fallback that leaves the round-trip out.
ToolUseIdNoTurn(id, turn, n) ==
    IF id # 0 THEN Tid("provider", id, 0) ELSE Tid("fallback", 0, n)

\* `block.id or f"tool_use_{_turn}_{n}"` / `tc["id"] or f"tool_call_{_turn}_{index}"`
ToolUseId(id, turn, n) ==
    IF id # 0 THEN Tid("provider", id, 0) ELSE Tid("fallback", turn, n)

\* An event as the client receives it; `turn` is the provider round-trip
\* (the loop index _turn) during which it was emitted.
\* `trace` is the redacted text a trace event carries and the names of the
\* redaction rules it records; the other events carry none.
NoTrace == [text |-> <<>>, rules |-> {}]

Event(type, seq, id, rid, info, turn) ==
    [type |-> type, seq |-> seq, id |-> id, rid |-> rid, info |-> info, turn |-> turn,
     trace |-> NoTrace]

\* A message of the history: `ids` are the tool calls it names, `content`
\* the texts of the tool inputs or tool results it holds, as they were given.
ContentMsg(role, kind, ids, content) ==
    [role |-> role, kind |-> kind, ids |-> ids, content |-> content]

Msg(role, kind, ids) == ContentMsg(role, kind, ids, <<>>)

\* sorted(calls, key=lambda x: x["id"]): stable, ascending by the raw id.
RECURSIVE InsertById(_, _)
InsertById(c, sorted) ==
    IF sorted = <<>> THEN <<c>>
    ELSE IF c.id < Head(sorted).id THEN <<c>> \o sorted
         ELSE <<Head(sorted)>> \o InsertById(c, Tail(sorted))

RECURSIVE SortedById(_)
SortedById(calls) ==
    IF calls = <<>> THEN <<>>
    ELSE InsertById(calls[Len(calls)], SortedById(SubSeq(calls, 1, Len(calls) - 1)))

RawIds(calls) == [i \in 1..Len(calls) |-> Tid("provider", calls[i].id, 0)]

\* Ids the provider has used in the history of a session.
UsedIds(messages) ==
    UNION {{messages[i].ids[j].a : j \in DOMAIN messages[i].ids} :
           i \in {x \in DOMAIN messages : messages[x].role = "assistant"}} \ {0}

(***************************************************************************)
(* The turn engine.  Each operator takes the local state q of one request  *)
(* and returns the state at the next suspension point.                     *)
(***************************************************************************)
IdleReq ==
    [pc |-> "idle", sid |-> "none", entry |-> "none", sess |-> NewSession,
     turn |-> 0, ncalls |-> 0, stop |-> "none", text |-> "", resp |-> <<>>,
     order |-> <<>>, k |-> 0,
     trace_seq |-> 0, tool_use_id |-> NoTid, tool_results |-> <<>>,
     result_contents |-> <<>>,
     prev |-> 0, result |-> "none", used |-> 0, rtext |-> <<>>, changed |-> FALSE, applied |-> {},
     events |-> <<>>, dlog |-> <<>>, status |-> "none", message |-> "none"]

IsStream(q) == q.entry = "stream"

\* `yield type, payload`, relayed by event_stream; the CLI loops emit nothing.
Emit(q, type, seq, id, rid, info) ==
    IF IsStream(q)
    THEN [q EXCEPT !.events = Append(@, Event(type, seq, id, rid, info, q.turn))]
    ELSE q

\* The tool_start or tool_result event of the current call, with the text
\* the payload builder redacted and the rules it collected.
EmitTrace(q, type, tool) ==
    [q EXCEPT !.events =
        Append(@, [Event(type, q.trace_seq, q.tool_use_id, 0, tool, q.turn)
                       EXCEPT !.trace = [text |-> q.rtext, rules |-> q.applied]])]

\* An append that overwrites the entry at the end of the history.
ReplaceLastMsg(q, m) ==
    [q EXCEPT !.sess.messages =
        IF @ = <<>> THEN <<m>> ELSE Append(SubSeq(@, 1, Len(@) - 1), m)]

AppendMsg(q, m) == [q EXCEPT !.sess.messages = Append(@, m)]

\* An exception that ends the stream without an event.
RaiseNoEvent(q) ==
    IF IsStream(q)
    THEN [q EXCEPT !.pc = "closing"]
    ELSE [q EXCEPT !.pc = "done", !.status = "raised", !.message = "exception"]

\* An exception leaving the engine: event_stream catches it and relays an
\* error event; run_agent lets it end the process.
RaiseExc(q) ==
    IF IsStream(q)
    THEN [Emit(q, "error", 0, NoTid, 0, "exception") EXCEPT !.pc = "closing"]
    ELSE [q EXCEPT !.pc = "done", !.status = "raised", !.message = "exception"]

\* The outcome of an exhausted turn budget.
BudgetExhausted(q) ==
    IF IsStream(q)
    THEN [Emit(q, "error", 0, NoTid, 0, "budget") EXCEPT !.pc = "closing"]
    ELSE [q EXCEPT !.pc = "done", !.status = "max_turns", !.message = "budget"]

\* Complete, reporting the render that was current before the last dispatch.
CompleteStale(q, reply) ==
    IF IsStream(q)
    THEN [Emit(q, "turn_complete", 0, NoTid, q.prev, reply) EXCEPT !.pc = "closing"]
    ELSE [q EXCEPT !.pc = "done", !.status = "complete", !.message = reply]

\* The outcome of natural completion.
Complete(q, reply) ==
    IF IsStream(q)
    THEN [Emit(q, "turn_complete", 0, NoTid, q.sess.current, reply) EXCEPT !.pc = "closing"]
    ELSE [q EXCEPT !.pc = "done", !.status = "complete", !.message = reply]

\* UnexpectedStop, taking every stop that is not tool use for completion.
UnexpectedStopAsComplete(q) == Complete(q, q.text)

\* The outcome of a stop condition that is neither completion nor tool use.
UnexpectedStop(q) ==
    IF IsStream(q)
    THEN [Emit(q, "error", 0, NoTid, 0, "stop") EXCEPT !.pc = "closing"]
    ELSE [q EXCEPT !.pc = "done", !.status = "error", !.message = "stop"]

\* `for _turn in range(cfg.MAX_AGENT_TURNS)`: the next provider call, with
\* trace_seq reset, or the statement after the loop.
LoopTop(q) ==
    IF q.turn < MaxAgentTurns
    THEN [q EXCEPT !.pc = "awaiting_model", !.trace_seq = 0, !.ncalls = @ + 1]
    ELSE BudgetExhausted(q)

\* The end of the loop over the tool calls of one response.
EndRound(q) ==
    LET q1 == IF apiProvider = "anthropic"
              THEN AppendMsg(q, ContentMsg("user", "tool_results", q.tool_results,
                                           q.result_contents))
              ELSE q
    IN  LoopTop([q1 EXCEPT !.turn = @ + 1])

\* The body of the loop over the tool calls, up to the first redaction.
BeginCall(q, k) ==
    LET call == q.order[k]
        n == IF apiProvider = "anthropic" THEN Len(q.tool_results) + 1 ELSE k
    IN  IF IsStream(q)
        THEN [q EXCEPT !.k = k,
                       !.tool_use_id = ToolUseId(call.id, q.turn, n),
                       !.trace_seq = @ + 1,
                       !.pc = "build_start",
                       !.rtext = InputText(call.inp), !.applied = {}]
        ELSE [q EXCEPT !.k = k,
                       !.tool_use_id = Tid("provider", call.id, 0),
                       !.pc = "dispatch"]

NextCall(q) == IF q.k < Len(q.order) THEN BeginCall(q, q.k + 1) ELSE EndRound(q)

\* The order in which the calls of a response are iterated.
DispatchOrder(q, calls) ==
    IF IsStream(q) /\ apiProvider = "openai" THEN SortedById(calls) ELSE calls

\* From the provider's final response to the next suspension point.
OnResponse(q, stop, text, calls) ==
    LET q1 == IF text # "" THEN Emit(q, "text_delta", 0, NoTid, 0, text) ELSE q
        order == DispatchOrder(q, calls)
        q2 == AppendMsg([q1 EXCEPT !.resp = calls, !.stop = stop, !.text = text],
                        ContentMsg("assistant", "content", RawIds(order),
                                   [i \in DOMAIN order |-> InputText(order[i].inp)]))
    IN  CASE stop = "end_turn" -> Complete(q2, text)
          [] stop = "tool_use" ->
                NextCall([q2 EXCEPT !.order = DispatchOrder(q, calls), !.k = 0,
                                    !.tool_results = <<>>, !.result_contents = <<>>])
          [] OTHER -> UnexpectedStop(q2)

\* session.traces[tool_use_id] = {...}: one record per id, replaced; the
\* result phase takes the input summary from the record it finds.
PutTrace(sess, id, phase, tool, text) ==
    LET old == {t \in sess.traces : t.id = id}
        input == IF phase = "start" THEN text
                 ELSE IF old = {} THEN <<>> ELSE (CHOOSE t \in old : TRUE).input
    IN  [sess EXCEPT !.traces =
            (@ \ old)
            \cup {[id |-> id, phase |-> phase, tool |-> tool, input |-> input,
                   status |-> IF phase = "start" THEN "none" ELSE "ok",
                   result |-> IF phase = "start" THEN <<>> ELSE text]}]

\* After the start payload is built: _store_tool_trace_start, then the
\* tool_start event; the dispatch is handed to the executor.
AfterBuildStart(q) ==
    LET call == q.order[q.k]
    IN  IF ~sessionHasTraces THEN RaiseExc(q)
        ELSE [EmitTrace([q EXCEPT !.sess = PutTrace(@, q.tool_use_id, "start", call.name, q.rtext)],
                        "tool_start", call.name)
              EXCEPT !.pc = "dispatch", !.prev = q.sess.current]

\* The tool outcome appended for the provider.
RecordResult(q) ==
    IF apiProvider = "anthropic"
    THEN [q EXCEPT !.tool_results = Append(@, q.tool_use_id),
                   !.result_contents = Append(@, ResultText(q.result))]
    ELSE AppendMsg(q, ContentMsg("tool", "tool_result", <<q.tool_use_id>>,
                                 <<ResultText(q.result)>>))

\* After the result payload is built: _store_tool_trace_result, the
\* tool_result event, the outcome appended, then the next call.
AfterBuildResult(q) ==
    LET call == q.order[q.k]
        q1 == EmitTrace([q EXCEPT !.sess = PutTrace(@, q.tool_use_id, "result", call.name, q.rtext)],
                        "tool_result", call.name)
    IN  NextCall(RecordResult(q1))

\* A dispatcher that raises on a name it does not know.
UnknownToolRaises(name, sess) ==
    IF name = "render_tikz" THEN {"ok", "fail", "fail_auth", "raise"}
    ELSE IF name \in {"validate_visual", "save_diagram"}
         THEN IF sess.current = 0 THEN {"sentinel"} ELSE {"ok", "raise"}
         ELSE {"raise"}

\* A dispatcher that hands the validator whatever the session holds.
ValidatorAlwaysCalled(name, sess) ==
    IF name = "render_tikz" THEN {"ok", "fail", "fail_auth", "raise"}
    ELSE IF name = "validate_visual" THEN {"ok", "raise"}
    ELSE IF name = "save_diagram"
         THEN IF sess.current = 0 THEN {"sentinel"} ELSE {"ok", "raise"}
         ELSE {"unknown"}

\* What dispatch_tool can do with a call, given the session.
DispatchOutcomes(name, sess) ==
    IF name = "render_tikz" THEN {"ok", "fail", "fail_auth", "raise"}
    ELSE IF name \in {"validate_visual", "save_diagram"}
         THEN IF sess.current = 0 THEN {"sentinel"} ELSE {"ok", "raise"}
         ELSE {"unknown"}

\* dispatch_tool: the session afterwards, the kind of result returned and
\* the render of the session whose bytes were read (0: none); image_bytes
\* is what the backend renders from the input of the call.
DispatchTool(name, sess, outcome, image_bytes) ==
    CASE name = "render_tikz" /\ outcome = "ok" ->
            [sess |-> StoreRender(sess, image_bytes), result |-> "blocks", used |-> 0]
      [] name = "render_tikz" /\ outcome = "fail" ->
            [sess |-> sess, result |-> "render_failed", used |-> 0]
      [] name = "render_tikz" /\ outcome = "fail_auth" ->
            [sess |-> sess, result |-> "render_failed_auth", used |-> 0]
      [] name = "validate_visual" /\ outcome = "sentinel" ->
            [sess |-> sess, result |-> "no_image", used |-> 0]
      [] name = "validate_visual" /\ outcome = "ok" ->
            [sess |-> sess, result |-> "json", used |-> sess.current]
      [] name = "save_diagram" /\ outcome = "sentinel" ->
            [sess |-> sess, result |-> "nothing_to_save", used |-> 0]
      [] name = "save_diagram" /\ outcome = "ok" ->
            [sess |-> sess, result |-> "saved", used |-> sess.current]
      [] OTHER -> [sess |-> sess, result |-> "unknown_tool", used |-> 0]

\* From the return of dispatch_tool to the next suspension point.
AfterDispatch(q, d) ==
    LET call == q.order[q.k]
        q1 == [q EXCEPT !.sess = d.sess, !.result = d.result, !.used = d.used]
        q2 == IF d.sess.current # q.prev /\ d.sess.current # 0
              THEN Emit(q1, "render_ready", 0, q.tool_use_id, d.sess.current, call.name)
              ELSE q1
        q3 == IF call.name = "validate_visual" /\ d.result = "json"
              THEN Emit(q2, "validate_result", 0, q.tool_use_id, d.sess.current, "json")
              ELSE q2
    IN  IF IsStream(q)
        THEN [q3 EXCEPT !.trace_seq = @ + 1, !.pc = "build_result",
                        !.rtext = ResultText(d.result), !.applied = {}]
        ELSE NextCall(RecordResult(q1))

(***************************************************************************)
(* What the provider may answer.                                           *)
(***************************************************************************)
\* A tool call: its name, the id the provider gave it (0: none), the kind of
\* its input and its position in the response.
CallChoices(used, pos) ==
    {[name |-> n, id |-> i, inp |-> x, pos |-> pos] :
        n \in ToolNames, i \in {0} \cup (ProviderIds \ used), x \in InputKinds}

\* The sequences of n calls whose ids are distinct and not in `used`.
RECURSIVE CallSeqs(_, _, _)
CallSeqs(n, used, pos) ==
    IF n = 0 THEN {<<>>}
    ELSE UNION {{<<c>> \o rest : rest \in CallSeqs(n - 1, used \cup ({c.id} \ {0}), pos + 1)} :
                c \in CallChoices(used, pos)}

\* The provider's ids are opaque and only their order matters: of the
\* responses that differ by a renaming of ids, the one whose ids fill
\* 1..m is kept.
Responses(n, used) ==
    {calls \in CallSeqs(n, used, 1) :
        LET ids == used \cup ({calls[i].id : i \in 1..n} \ {0})
        IN  ids = 1..Cardinality(ids)}

\* The text the provider streams: a reply or none when the turn completes,
\* some text before any other stop.
RepliesOf(stop) == IF stop = "end_turn" THEN ReplyTexts ELSE {"t"}

(***************************************************************************)
(* SessionStore: the sqlite tables, the render files, the lock, and the    *)
(* session objects the handlers hold.                                      *)
(***************************************************************************)
\* Renders stored for one session, messages appended to one session, ticks
\* of the clock, and the ticks of cfg.SESSION_TTL_SECONDS.
MaxRenders == 2
MaxMessages == 1
MaxTime == 2
TtlTicks == 1
\* Calls of the store in one run.
MaxCalls == 6

StoreSessionIds == {"s1", "s2"}
\* The sessions whose turns render images.
Renderers == {"s1"}
\* The event loop's thread, and a thread of asyncio.to_thread.
Threads == {"loop", "worker"}

\* f"v{n}", and SessionStore._render_index: the number after the v, None
\* (0) for another id.
RenderId(n) == <<"v", n>>
NoRenderId == <<"", 0>>
RenderIndex(render_id) == IF render_id[1] = "v" /\ render_id[2] > 0 THEN render_id[2] ELSE 0
RenderIds == {RenderId(n) : n \in 1..MaxRenders}

\* json.dumps(session.messages) and json.loads(messages_json): a message is
\* a dict of a role and a content.
MessagesJson(messages) ==
    [i \in DOMAIN messages |-> <<"{", messages[i].role, messages[i].content, "}">>]
JsonMessages(messages_json) ==
    [i \in DOMAIN messages_json |->
        [role |-> messages_json[i][2], content |-> messages_json[i][3]]]

\* A row of the table sessions; a render file: not there, being written (it
\* holds a part of the bytes, written -n), or written with these bytes (the
\* n-th image rendered for the session).
NoStoredRow == [exists |-> FALSE, messages_json |-> <<>>, current |-> NoRenderId, last |-> 0]
NoFile == [written |-> "none", bytes |-> 0]
PartFile(bytes) == [written |-> "part", bytes |-> 0 - bytes]
FullFile(bytes) == [written |-> "all", bytes |-> bytes]

EmptyDb ==
    [rows |-> [s \in StoreSessionIds |-> NoStoredRow],
     index |-> [s \in StoreSessionIds |-> {}],
     files |-> [s \in StoreSessionIds |-> [r \in RenderIds |-> NoFile]]]

\* No handler holds a session object for the id.
NotHeld ==
    [held |-> FALSE, messages |-> <<>>, renders |-> {}, current |-> NoRenderId]

\* The bytes of a render id in session.renders (0: not a key).
BytesOf(renders, render_id) ==
    IF \E e \in renders : e.id = render_id
    THEN (CHOOSE e \in renders : e.id = render_id).bytes
    ELSE 0

\* ConversationSession.store_render: the id is made from len(self.renders).
SessionStoreRender(session, image_bytes) ==
    LET render_id == RenderId(Cardinality(session.renders) + 1)
    IN  [session EXCEPT
            !.renders = {e \in @ : e.id # render_id}
                        \cup {[id |-> render_id, bytes |-> image_bytes]},
            !.current = render_id]

\* A thread that runs no operation of the store.
IdleThread ==
    [pc |-> "idle", op |-> "none", sid |-> "none", at |-> 0, saw_row |-> FALSE,
     todo |-> <<>>, inserts |-> {}, wrote |-> {}, expired |-> {},
     render_rows |-> <<>>, err |-> "none", again |-> FALSE, prior |-> NotHeld,
     before |-> EmptyDb]

\* The keys of session.renders in the order of their index.
RECURSIVE SeqOfIds(_)
SeqOfIds(ids) ==
    IF ids = {} THEN <<>>
    ELSE LET first == CHOOSE x \in ids : \A y \in ids : x[2] <= y[2]
         IN  <<first>> \o SeqOfIds(ids \ {first})

\* An expiry test that also takes the sessions idle for exactly the TTL.
IsExpiredAtTtl(at, last_activity) == at - last_activity >= TtlTicks

\* `now - last_activity > ttl`
IsExpired(at, last_activity) == at - last_activity > TtlTicks

\* A lock that anyone can take.
LockAlwaysFree(t) == TRUE

\* `with self._lock`: a thread other than the owner waits.
LockFree(t) == lock = "none"

\* No row of the table renders is looked up.
NoExistingRenderIds(d, s) == {}

\* "SELECT render_id FROM renders WHERE session_id = ?"
ExistingRenderIds(d, s) == {e.render_id : e \in d.index[s]}

\* The write of a file that leaves the file as it was.
WriteNothing(files, s, render_id, image_bytes) == files

\* render_path.write_bytes(image_bytes), once it has returned.
WriteBytes(files, s, render_id, image_bytes) ==
    [files EXCEPT ![s][render_id] = FullFile(image_bytes)]

\* "DELETE FROM sessions WHERE id = ?": the row, and by ON DELETE CASCADE
\* the rows of its renders.
DeleteRows(d, ids) ==
    [d EXCEPT !.rows = [s \in StoreSessionIds |-> IF s \in ids THEN NoStoredRow ELSE @[s]],
              !.index = [s \in StoreSessionIds |-> IF s \in ids THEN {} ELSE @[s]]]

\* shutil.rmtree(self._session_dir(session_id), ignore_errors=True)
RemoveTrees(d, ids) ==
    [d EXCEPT !.files = [s \in StoreSessionIds |->
                            IF s \in ids THEN [r \in RenderIds |-> NoFile] ELSE @[s]]]

\* The session SessionStore.get builds from the row, the rows of the
\* renders and the files that exist.
LoadedSession(d, s, render_rows) ==
    [held |-> TRUE,
     messages |-> JsonMessages(d.rows[s].messages_json),
     renders |-> {[id |-> render_rows[i], bytes |-> d.files[s][render_rows[i]].bytes] :
                    i \in {k \in DOMAIN render_rows :
                              d.files[s][render_rows[k]].written # "none"}},
     current |-> d.rows[s].current]

\* The commit of SessionStore.update: the rows of the new renders, and the
\* row of the session if there is one.
CommitUpdate(d, s, session, last_activity, inserts) ==
    [d EXCEPT
        !.index[s] = @ \cup {[render_id |-> r, render_index |-> RenderIndex(r)] : r \in inserts},
        !.rows[s] = IF @.exists
                    THEN [exists |-> TRUE,
                          messages_json |-> MessagesJson(session.messages),
                          current |-> session.current,
                          last |-> last_activity]
                    ELSE @]

\* A store operation of a thread is working on the session.
Busy(s) == \E t \in Threads : th[t].pc # "idle" /\ th[t].sid = s /\ th[t].op \in {"get", "update"}

StorageIdle ==
    /\ db = EmptyDb
    /\ held = [s \in StoreSessionIds |-> NotHeld]
    /\ th = [t \in Threads |-> IdleThread]
    /\ lock = "none"
    /\ now = 0
    /\ hist = [returned |-> [s \in StoreSessionIds |-> <<>>],
               created |-> {}, synced |-> {}, calls |-> 0, crashes |-> 0, lost |-> 0]

(***************************************************************************)
(* Actions.                                                                *)
(***************************************************************************)
\* No telemetry function is being run on its own.
NoCall == [op |-> "none", pc |-> "none"]

\* The engine at rest, for the runs of one function on its own.
EngineIdle ==
    /\ apiProvider = "anthropic"
    /\ sessionHasTraces = FALSE
    /\ store = [s \in StoreSessionIds |-> NoRow]
    /\ req = [r \in Reqs |-> IdleReq]
    /\ issued = 0
    /\ StorageIdle

Init ==
    /\ apiProvider \in Providers
    /\ sessionHasTraces \in BOOLEAN
    /\ store = [s \in StoreSessionIds |-> NoRow]
    /\ req = [r \in Reqs |-> IdleReq]
    /\ issued = 0
    /\ fn = NoCall
    /\ StorageIdle

\* POST /sessions: SessionStore.create
CreateSession(s) ==
    /\ ~store[s].exists
    /\ \A r \in Reqs : req[r].entry # "cli"
    /\ store' = [store EXCEPT ![s].exists = TRUE]
    /\ UNCHANGED <<apiProvider, sessionHasTraces, req, issued, fn, storage>>

\* POST /sessions/{id}/messages: send_message gets the session from the
\* store and run_turn_stream appends the user message and calls the provider.
PostMessage(r, s) ==
    /\ req[r].pc = "idle"
    /\ store[s].exists
    /\ \A o \in Reqs : req[o].entry # "cli"
    /\ r = "r2" => req["r1"].pc # "idle"
    /\ req' = [req EXCEPT ![r] =
                 LoopTop(AppendMsg([@ EXCEPT !.sid = s, !.entry = "stream",
                                             !.sess = StoreGet(store, s)],
                                   Msg("user", "text", <<>>)))]
    /\ UNCHANGED <<apiProvider, sessionHasTraces, store, issued, fn, storage>>

\* run_agent: a session of its own, the description as the user message.
RunAgent(r) ==
    /\ \A o \in Reqs : req[o].pc = "idle"
    /\ req' = [req EXCEPT ![r] =
                 LET q == [@ EXCEPT !.sid = "cli", !.entry = "cli"]
                     q1 == IF apiProvider = "openai"
                           THEN AppendMsg(q, Msg("system", "text", <<>>))
                           ELSE q
                 IN  LoopTop(AppendMsg(q1, Msg("user", "text", <<>>)))]
    /\ UNCHANGED <<apiProvider, sessionHasTraces, store, issued, fn, storage>>

\* The provider's response arrives: text deltas, then the final message.
ProviderResponds(r, budget) ==
    /\ req[r].pc = "awaiting_model"
    /\ \E stop \in StopReasons, n \in 0..(budget - issued) :
         \E text \in RepliesOf(stop), calls \in Responses(n, UsedIds(req[r].sess.messages)) :
            /\ req' = [req EXCEPT ![r] = OnResponse(@, stop, text, calls)]
            /\ issued' = issued + n
    /\ UNCHANGED <<apiProvider, sessionHasTraces, store, fn, storage>>

\* The `while True` loop of _redact_text, over the tool input while the start
\* payload is built and over the result text while the result payload is
\* built.  With `changed` False (line 221) one pass runs: if no rule fires the
\* loop breaks and the builder's caller goes on, otherwise `changed` is True
\* and the test of line 253 sends the loop back to its top.
RedactStep(r) ==
    /\ req[r].pc \in {"build_start", "build_result"}
    /\ LET q == req[r]
           pass == RedactPass(q.rtext)
       IN  req' = [req EXCEPT ![r] =
                     IF q.changed THEN [q EXCEPT !.changed = FALSE]
                     ELSE IF pass.changed
                          THEN [q EXCEPT !.rtext = pass.text, !.changed = TRUE,
                                         !.applied = @ \cup pass.rules]
                          ELSE IF q.pc = "build_start" THEN AfterBuildStart(q)
                               ELSE AfterBuildResult(q)]
    /\ UNCHANGED <<apiProvider, sessionHasTraces, store, issued, fn, storage>>

\* What is known of a dispatch when it begins: the round-trip, the position
\* of the call in the provider's response, its tool_use_id and the number of
\* events emitted so far.
DispatchRecord(q) ==
    [turn |-> q.turn, pos |-> q.order[q.k].pos, id |-> q.tool_use_id,
     at |-> Len(q.events)]

\* The image a backend renders for the n-th dispatch of a request.
ImageOf(r, n) == [by |-> r, n |-> n]

\* dispatch_tool runs (in the executor for the streaming engine) and returns
\* or raises; event_stream persists the session before it relays render_ready.
Dispatch(r) ==
    /\ req[r].pc = "dispatch"
    /\ LET q == [req[r] EXCEPT !.dlog = Append(@, DispatchRecord(req[r]))]
           call == q.order[q.k]
       IN  \E outcome \in DispatchOutcomes(call.name, q.sess) :
              IF outcome = "raise"
              THEN /\ req' = [req EXCEPT ![r] = RaiseExc(q)]
                   /\ store' = store
              ELSE LET d == DispatchTool(call.name, q.sess, outcome, ImageOf(r, Len(q.dlog)))
                       q1 == AfterDispatch(q, d)
                   IN  /\ req' = [req EXCEPT ![r] = q1]
                       /\ store' = IF IsStream(q) /\ d.sess.current # q.prev
                                      /\ d.sess.current # 0
                                   THEN StoreUpdate(store, q.sid, d.sess)
                                   ELSE store
    /\ UNCHANGED <<apiProvider, sessionHasTraces, issued, fn, storage>>

\* event_stream's `finally: store.update(session)`.
CloseStream(r) ==
    /\ req[r].pc = "closing"
    /\ store' = StoreUpdate(store, req[r].sid, req[r].sess)
    /\ req' = [req EXCEPT ![r].pc = "done"]
    /\ UNCHANGED <<apiProvider, sessionHasTraces, issued, fn, storage>>

Step(r, budget) ==
    \/ ProviderResponds(r, budget)
    \/ RedactStep(r)
    \/ Dispatch(r)
    \/ CloseStream(r)

\* One run of the engine: a message posted to the server, or run_agent.
Next ==
    \/ \E s \in SessionIds : CreateSession(s)
    \/ \E s \in SessionIds : PostMessage("r1", s)
    \/ RunAgent("r1")
    \/ Step("r1", MaxToolCalls)

Spec == Init /\ [][Next]_vars

\* The event loop runs every task that can run; the provider and the tools
\* answer.
FairSpec == Spec /\ WF_vars(Step("r1", MaxToolCalls))

\* The server, with messages posted while others are being served.
ServerNext ==
    \/ \E s \in SessionIds : CreateSession(s)
    \/ \E r \in Reqs, s \in SessionIds : PostMessage(r, s)
    \/ \E r \in Reqs : Step(r, MaxServerCalls)

ServerSpec == Init /\ [][ServerNext]_vars

\* The responses of n calls in which at least one call names a tool that
\* dispatch_tool does not know.
UnknownResponses(n, used) ==
    {[i \in 1..n |-> IF i \in S THEN [calls[i] EXCEPT !.name = UnknownTool] ELSE calls[i]] :
        calls \in Responses(n, used), S \in SUBSET (1..n) \ {{}}}

\* The provider's response asks for a tool that does not exist.
ProviderNamesUnknownTool(r, budget) ==
    /\ req[r].pc = "awaiting_model"
    /\ \E n \in 1..(budget - issued) :
         \E calls \in UnknownResponses(n, UsedIds(req[r].sess.messages)) :
            /\ req' = [req EXCEPT ![r] = OnResponse(@, "tool_use", "t", calls)]
            /\ issued' = issued + n
    /\ UNCHANGED <<apiProvider, sessionHasTraces, store, fn, storage>>

\* One run of the engine with a provider that may name any tool.
ToolSpec == Init /\ [][Next \/ ProviderNamesUnknownTool("r1", MaxToolCalls)]_vars

\* The responses of n calls in which at least one call is save_diagram.
SaveResponses(n, used) ==
    {[i \in 1..n |-> IF i \in S THEN [calls[i] EXCEPT !.name = "save_diagram"] ELSE calls[i]] :
        calls \in Responses(n, used), S \in SUBSET (1..n) \ {{}}}

\* The provider's response asks for the current render to be saved.
ProviderAsksSave(r, budget) ==
    /\ req[r].pc = "awaiting_model"
    /\ \E n \in 1..(budget - issued) :
         \E calls \in SaveResponses(n, UsedIds(req[r].sess.messages)) :
            /\ req' = [req EXCEPT ![r] = OnResponse(@, "tool_use", "t", calls)]
            /\ issued' = issued + n
    /\ UNCHANGED <<apiProvider, sessionHasTraces, store, fn, storage>>

\* The session each request of the two-session server works on.
SessionOf == [r1 |-> "s1", r2 |-> "s2"]

\* The server with a turn on each of two sessions, interleaved at will.
IsolationNext ==
    \/ \E s \in StoreSessionIds : CreateSession(s)
    \/ \E r \in Reqs : PostMessage(r, SessionOf[r])
    \/ \E r \in Reqs : Step(r, MaxToolCalls)
    \/ \E r \in Reqs : ProviderAsksSave(r, MaxToolCalls)

IsolationSpec == Init /\ [][IsolationNext]_vars

\* The server with two messages posted to one session, each turn with the
\* whole tool budget.
OverlapNext ==
    \/ \E s \in SessionIds : CreateSession(s)
    \/ \E r \in Reqs, s \in SessionIds : PostMessage(r, s)
    \/ \E r \in Reqs : Step(r, MaxToolCalls)

OverlapSpec == Init /\ [][OverlapNext]_vars

\* The client abandons the stream: the generator of event_stream is closed
\* where it is suspended, no further event is relayed and its `finally`
\* clause runs.
ClientAbandons(r) ==
    /\ IsStream(req[r])
    /\ req[r].pc \in {"awaiting_model", "dispatch", "build_result"}
    /\ req' = [req EXCEPT ![r].pc = "closing", ![r].status = "abandoned"]
    /\ UNCHANGED <<apiProvider, sessionHasTraces, store, issued, fn, storage>>

\* One run of the engine for a client that may go away.
AbandonSpec == Init /\ [][Next \/ ClientAbandons("r1")]_vars

(***************************************************************************)
(* _redact_text on its own: the text of a tool input or result goes        *)
(* through the passes of the loop until one changes nothing; the returned  *)
(* text is then redacted a second time, as a trace is when it is built     *)
(* from text that was redacted before.                                     *)
(***************************************************************************)
RedactTokens ==
    {"w", "Authorization:", "Bearer", "tok", "x-api-key:", "FOO=",
     "OPENAI_API_KEY=", "sk-KEY", "hunter2"}

RawTexts == UNION {[1..n -> RedactTokens] : n \in 0..MaxTextLen}

RedactCall(text) ==
    [op |-> "redact_text", raw |-> text, text |-> text, changed |-> FALSE,
     applied |-> {}, pc |-> "loop", run |-> 1, first |-> <<>>, first_rules |-> {}]

RedactInit ==
    /\ EngineIdle
    /\ fn = NoCall

\* _redact_text(text) is called.
RedactText(text) ==
    /\ fn = NoCall
    /\ fn' = RedactCall(text)
    /\ UNCHANGED <<apiProvider, sessionHasTraces, store, req, issued, storage>>

\* One turn of the `while True` loop: `changed = False`, then every rule;
\* `if not changed: break` and the return.
RedactTextPass ==
    /\ fn.op = "redact_text"
    /\ fn.pc = "loop"
    /\ LET pass == RedactPass(fn.text)
       IN  fn' = IF fn.changed THEN [fn EXCEPT !.changed = FALSE]
                 ELSE IF pass.changed
                      THEN [fn EXCEPT !.text = pass.text, !.changed = TRUE,
                                      !.applied = @ \cup pass.rules]
                      ELSE [fn EXCEPT !.text = pass.text, !.pc = "returned"]
    /\ UNCHANGED <<apiProvider, sessionHasTraces, store, req, issued, storage>>

\* The returned text is given to _redact_text again.
RedactAgain ==
    /\ fn.op = "redact_text"
    /\ fn.pc = "returned"
    /\ fn.run = 1
    /\ fn' = [fn EXCEPT !.run = 2, !.first = fn.text, !.first_rules = fn.applied,
                        !.applied = {}, !.pc = "loop"]
    /\ UNCHANGED <<apiProvider, sessionHasTraces, store, req, issued, storage>>

RedactNext ==
    \/ \E text \in RawTexts : RedactText(text)
    \/ RedactTextPass
    \/ RedactAgain

\* The interpreter keeps running the loop it is in.
RedactSpec == RedactInit /\ [][RedactNext]_vars /\ WF_vars(RedactNext)

(***************************************************************************)
(* _build_tool_start_payload and _store_tool_trace_start on their own, for *)
(* one tool input.                                                         *)
(***************************************************************************)
StartCall(tool_input) ==
    [op |-> "tool_start", pc |-> "summary", tool_input |-> tool_input,
     summary |-> <<>>, input_full |-> <<>>, rules |-> {}, applied |-> FALSE,
     payload |-> [input |-> <<>>, input_full |-> <<>>, rules |-> {}, applied |-> FALSE],
     record |-> [input_summary |-> <<>>, input_full_untruncated |-> <<>>]]

StartInit ==
    /\ EngineIdle
    /\ \E tool_input \in ToolInputs : fn = StartCall(tool_input)

\* summary_raw = _summarize(tool_input); summary_redacted = _redact_text(...)
SummarizeInput ==
    /\ fn.op = "tool_start"
    /\ fn.pc = "summary"
    /\ LET redacted == RedactTextOf(Summarize(fn.tool_input))
       IN  /\ redacted.returns
           /\ fn' = [fn EXCEPT !.summary = redacted.text, !.rules = redacted.rules,
                               !.applied = redacted.changed, !.pc = "input_full"]
    /\ UNCHANGED <<apiProvider, sessionHasTraces, store, req, issued, storage>>

\* input_full, input_full_redacted, full_rules = _redact_jsonish(tool_input)
RedactInputFull ==
    /\ fn.op = "tool_start"
    /\ fn.pc = "input_full"
    /\ LET full == RedactJsonish(fn.tool_input)
       IN  /\ full.returns
           /\ fn' = [fn EXCEPT !.input_full = full.text, !.rules = @ \cup full.rules,
                               !.applied = @ \/ full.changed, !.pc = "payload"]
    /\ UNCHANGED <<apiProvider, sessionHasTraces, store, req, issued, storage>>

\* The payload of the tool_start event.
AssembleStartPayload ==
    /\ fn.op = "tool_start"
    /\ fn.pc = "payload"
    /\ fn' = [fn EXCEPT !.payload = [input |-> fn.summary, input_full |-> fn.input_full,
                                     rules |-> fn.rules, applied |-> fn.applied],
                        !.pc = "built"]
    /\ UNCHANGED <<apiProvider, sessionHasTraces, store, req, issued, storage>>

\* _store_tool_trace_start: the record kept for the call, made from the tool
\* input again.
StoreToolTraceStart ==
    /\ fn.op = "tool_start"
    /\ fn.pc = "built"
    /\ LET input_summary == RedactTextOf(Summarize(fn.tool_input))
           full == RedactJsonish(fn.tool_input)
       IN  /\ input_summary.returns /\ full.returns
           /\ fn' = [fn EXCEPT !.record = [input_summary |-> input_summary.text,
                                           input_full_untruncated |-> full.text],
                               !.pc = "stored"]
    /\ UNCHANGED <<apiProvider, sessionHasTraces, store, req, issued, storage>>

StartNext ==
    \/ SummarizeInput
    \/ RedactInputFull
    \/ AssembleStartPayload
    \/ StoreToolTraceStart

StartSpec == StartInit /\ [][StartNext]_vars

(***************************************************************************)
(* _truncate_to_bytes on its own.                                          *)
(***************************************************************************)
CharClasses == {"ascii", "two", "three", "four"}

\* Strings of up to MaxRuns runs of up to MaxRunLen characters.
ShortStrings ==
    UNION {[1..n -> {Run(c, k) : c \in CharClasses, k \in 1..MaxRunLen}] : n \in 0..MaxRuns}

TruncInit ==
    /\ EngineIdle
    /\ \E value \in ShortStrings, max_bytes \in 0..MaxCeiling :
          fn = [op |-> "truncate", pc |-> "called", value |-> value,
                max_bytes |-> max_bytes, text |-> <<>>, truncated |-> FALSE]

TruncateCall ==
    /\ fn.op = "truncate"
    /\ fn.pc = "called"
    /\ LET out == TruncateToBytes(fn.value, fn.max_bytes)
       IN  fn' = [fn EXCEPT !.text = out.text, !.truncated = out.truncated,
                            !.pc = "returned"]
    /\ UNCHANGED <<apiProvider, sessionHasTraces, store, req, issued, storage>>

TruncNext == TruncateCall

TruncSpec == TruncInit /\ [][TruncNext]_vars

(***************************************************************************)
(* The two payload builders and _finalize_trace_payload on their own.      *)
(***************************************************************************)
TraceToolNames == {<<Run("ascii", 11)>>, <<Run("two", 40)>>}
ToolUseIds == {<<Run("ascii", 30)>>, <<Run("ascii", 200)>>}
InputSummaries == {<<Run("ascii", 20)>>, <<Run("two", 200)>>}
InputFulls ==
    {<<Run("ascii", 50)>>, <<Run("quote", 9000)>>, <<Run("quote", 20000)>>,
     <<Run("four", 5000)>>}
RuleLists == {<<>>, << <<Run("ascii", 10)>> >>}

\* Numbers of control characters with which a result event is within a few
\* bytes of the ceiling, for each of the tool names and ids above.
EdgeRuns == {9778, 9794, 9803, 9804, 9820, 10306, 10307, 10323, 10332, 10348}

ResultTexts ==
    {<<Run("ascii", 100)>>, <<Run("ctl", 11000)>>, <<Run("ctl", 40000)>>,
     <<Run("four", 9000)>>}
    \cup {IF pad = 0 THEN <<Run("ctl", k)>> ELSE <<Run("ctl", k), Run("ascii", pad)>> :
            k \in EdgeRuns, pad \in 0..MaxPad}

BuilderCall(shape, tool, tool_use_id, input, text, is_error, rules) ==
    [op |-> "trace", pc |-> "called", shape |-> shape, tool |-> tool,
     tool_use_id |-> tool_use_id, input |-> input, text |-> text,
     is_error |-> is_error, rules |-> rules,
     content |-> NoContent, artifacts |-> NoArtifacts,
     payload |-> EmptyPayload(shape), measured |-> EmptyPayload(shape)]

\* The builder called with what dispatch_tool returned.
ResultCall(tool, tool_use_id, content, rules) ==
    [BuilderCall("result", tool, tool_use_id, <<>>, None, FALSE, rules)
        EXCEPT !.content = content]

TraceInit ==
    /\ EngineIdle
    /\ \E tool \in TraceToolNames, tool_use_id \in ToolUseIds, rules \in RuleLists :
          \/ \E input \in InputSummaries, input_full \in InputFulls :
                fn = BuilderCall("start", tool, tool_use_id, input, Some(input_full),
                                 FALSE, rules)
          \/ \E text \in ResultTexts, is_error \in BOOLEAN :
                fn = BuilderCall("result", tool, tool_use_id, <<>>, Some(text),
                                 is_error, rules)
          \/ fn = BuilderCall("result", tool, tool_use_id, <<>>, None, FALSE, rules)
          \/ \E backend \in Backends, nbytes \in 1..MaxImageBytes :
                fn = ResultCall(tool, tool_use_id,
                                BlockContent(RenderedBlocks(backend, nbytes)), rules)

\* _build_tool_result_payload: _project_result_text on what the tool
\* returned.
ProjectResult ==
    /\ fn.op = "trace"
    /\ fn.pc = "called"
    /\ fn.content.kind # "none"
    /\ LET projected == ProjectResultText(fn.content)
       IN  fn' = [fn EXCEPT !.text = projected.text, !.artifacts = projected.artifacts,
                            !.pc = "projected"]
    /\ UNCHANGED <<apiProvider, sessionHasTraces, store, req, issued, storage>>

\* _build_tool_start_payload / _build_tool_result_payload up to the call of
\* _finalize_trace_payload.
BuildPayload ==
    /\ fn.op = "trace"
    /\ \/ fn.pc = "called" /\ fn.content.kind = "none"
       \/ fn.pc = "projected"
    /\ fn' = [fn EXCEPT
                !.payload = IF fn.shape = "start"
                            THEN StartPayload(fn.tool, fn.tool_use_id, fn.input,
                                              fn.text.s, fn.rules)
                            ELSE WithArtifacts(
                                    ResultPayload(fn.tool, fn.tool_use_id, fn.text,
                                                  fn.is_error, fn.rules),
                                    fn.artifacts),
                !.pc = "built"]
    /\ UNCHANGED <<apiProvider, sessionHasTraces, store, req, issued, storage>>

\* _finalize_trace_payload: the field limits.
LimitPayloadFields ==
    /\ fn.op = "trace"
    /\ fn.pc = "built"
    /\ fn' = [fn EXCEPT !.payload = LimitFields(@), !.pc = "limited"]
    /\ UNCHANGED <<apiProvider, sessionHasTraces, store, req, issued, storage>>

\* _finalize_trace_payload: the first loop that computes size.event_bytes.
MeasureEvent ==
    /\ fn.op = "trace"
    /\ fn.pc = "limited"
    /\ LET p == SizeLoop(fn.payload, SizePasses)
       IN  fn' = [fn EXCEPT !.payload = p, !.measured = p, !.pc = "measured"]
    /\ UNCHANGED <<apiProvider, sessionHasTraces, store, req, issued, storage>>

\* _finalize_trace_payload: the drop of the large fields, and the return.
DropOversized ==
    /\ fn.op = "trace"
    /\ fn.pc = "measured"
    /\ fn' = [fn EXCEPT !.payload = DropFields(@), !.pc = "returned"]
    /\ UNCHANGED <<apiProvider, sessionHasTraces, store, req, issued, storage>>

TraceNext ==
    \/ ProjectResult
    \/ BuildPayload
    \/ LimitPayloadFields
    \/ MeasureEvent
    \/ DropOversized

TraceSpec == TraceInit /\ [][TraceNext]_vars

(***************************************************************************)
(* The session storage of the server: the endpoints and the cleanup loop   *)
(* call the store on the event loop's thread, event_stream also calls      *)
(* update on a thread of asyncio.to_thread; the handlers render into and   *)
(* append to the session objects they hold.                                *)
(***************************************************************************)
Call(t, op, s) == [IdleThread EXCEPT !.pc = "waiting", !.op = op, !.sid = s, !.at = now]

\* create_session: ConversationSession(id=uuid.uuid4().hex), an id no session
\* had before.
CallCreate(s) ==
    /\ th["loop"].pc = "idle"
    /\ s \notin hist.created
    /\ s = "s2" => "s1" \in hist.created
    /\ hist.calls < MaxCalls
    /\ th' = [th EXCEPT !["loop"] = Call("loop", "create", s)]
    /\ hist' = [hist EXCEPT !.created = @ \cup {s}, !.calls = @ + 1]
    /\ UNCHANGED <<engine, db, held, lock, now>>

\* send_message, get_render, get_session: store.get(session_id)
CallGet(s) ==
    /\ th["loop"].pc = "idle"
    /\ s \in hist.created
    /\ ~Busy(s)
    /\ hist.calls < MaxCalls
    /\ th' = [th EXCEPT !["loop"] = Call("loop", "get", s)]
    /\ hist' = [hist EXCEPT !.calls = @ + 1]
    /\ UNCHANGED <<engine, db, held, lock, now>>

\* event_stream: store.update(session), on a thread of its own before
\* render_ready and on the loop's thread at the end; session.touch() first:
\* `at` is the last_activity of the session from then on.
CallUpdate(t, s) ==
    /\ th[t].pc = "idle"
    /\ held[s].held
    /\ ~Busy(s)
    /\ hist.calls < MaxCalls
    /\ th' = [th EXCEPT ![t] = Call(t, "update", s)]
    /\ hist' = [hist EXCEPT !.calls = @ + 1]
    /\ UNCHANGED <<engine, db, held, lock, now>>

\* delete_session: store.delete(session_id)
CallDelete(s) ==
    /\ th["loop"].pc = "idle"
    /\ s \in hist.created
    /\ hist.calls < MaxCalls
    /\ th' = [th EXCEPT !["loop"] = Call("loop", "delete", s)]
    /\ hist' = [hist EXCEPT !.calls = @ + 1]
    /\ UNCHANGED <<engine, db, held, lock, now>>

\* _cleanup_loop, create_session: store.cleanup_expired(); `now` is read
\* before the lock is taken.
CallCleanup ==
    /\ th["loop"].pc = "idle"
    /\ hist.calls < MaxCalls
    /\ th' = [th EXCEPT !["loop"] = Call("loop", "cleanup", "none")]
    /\ hist' = [hist EXCEPT !.calls = @ + 1]
    /\ UNCHANGED <<engine, db, held, lock, now>>

\* len(store)
CallCount ==
    /\ th["loop"].pc = "idle"
    /\ hist.calls < MaxCalls
    /\ th' = [th EXCEPT !["loop"] = Call("loop", "count", "none")]
    /\ hist' = [hist EXCEPT !.calls = @ + 1]
    /\ UNCHANGED <<engine, db, held, lock, now>>

\* `with self._lock:` entered.
Acquire(t) ==
    /\ th[t].pc = "waiting"
    /\ LockFree(t)
    /\ lock' = t
    /\ th' = [th EXCEPT ![t].pc = "locked", ![t].before = db,
                         ![t].again = th[t].sid \in hist.synced]
    /\ hist' = [hist EXCEPT !.synced = {}]
    /\ UNCHANGED <<engine, db, held, now>>

\* create: the row of the new session inserted.
CreateRow(t) ==
    /\ th[t].pc = "locked" /\ th[t].op = "create"
    /\ db' = [db EXCEPT !.rows[th[t].sid] =
                [exists |-> TRUE, messages_json |-> MessagesJson(<<>>),
                 current |-> NoRenderId, last |-> th[t].at]]
    /\ th' = [th EXCEPT ![t].pc = "release"]
    /\ UNCHANGED <<engine, held, lock, now, hist>>

\* get: the row of the session and the rows of its renders selected.
GetSelect(t) ==
    /\ th[t].pc = "locked" /\ th[t].op = "get"
    /\ th' = [th EXCEPT
                ![t].saw_row = db.rows[th[t].sid].exists,
                ![t].render_rows = SeqOfIds(ExistingRenderIds(db, th[t].sid)),
                ![t].pc = IF db.rows[th[t].sid].exists THEN "read" ELSE "release"]
    /\ UNCHANGED <<engine, db, held, lock, now, hist>>

\* get: the files that exist read, the session returned to the handler.
GetRead(t) ==
    /\ th[t].pc = "read"
    /\ held' = [held EXCEPT ![th[t].sid] = LoadedSession(db, th[t].sid, th[t].render_rows)]
    /\ th' = [th EXCEPT ![t].pc = "release", ![t].prior = held[th[t].sid]]
    /\ hist' = [hist EXCEPT !.synced = @ \ {th[t].sid}]
    /\ UNCHANGED <<engine, db, lock, now>>

\* update: the ids already indexed selected; the renders of the session
\* that are not among them are to be written.
UpdateSelect(t) ==
    /\ th[t].pc = "locked" /\ th[t].op = "update"
    /\ LET s == th[t].sid
           existing_render_ids == ExistingRenderIds(db, s)
       IN  th' = [th EXCEPT
                    ![t].saw_row = db.rows[s].exists,
                    ![t].todo = SeqOfIds({e.id : e \in held[s].renders} \ existing_render_ids),
                    ![t].pc = "loop"]
    /\ UNCHANGED <<engine, db, held, lock, now, hist>>

\* update: write_bytes has begun.
UpdateWriteBegin(t) ==
    /\ th[t].pc = "loop" /\ th[t].todo # <<>>
    /\ LET s == th[t].sid
           render_id == Head(th[t].todo)
       IN  db' = [db EXCEPT !.files[s][render_id] =
                     PartFile(BytesOf(held[s].renders, render_id))]
    /\ th' = [th EXCEPT ![t].pc = "writing"]
    /\ UNCHANGED <<engine, held, lock, now, hist>>

\* update: write_bytes returns, or raises OSError and the transaction is
\* rolled back.
UpdateWriteEnd(t) ==
    /\ th[t].pc = "writing"
    /\ LET s == th[t].sid
           render_id == Head(th[t].todo)
       IN  \/ /\ db' = [db EXCEPT !.files =
                          WriteBytes(@, s, render_id, BytesOf(held[s].renders, render_id))]
              /\ th' = [th EXCEPT ![t].pc = "insert", ![t].wrote = @ \cup {render_id}]
           \/ /\ db' = db
              /\ th' = [th EXCEPT ![t].pc = "release", ![t].err = "os", ![t].inserts = {}]
    /\ UNCHANGED <<engine, held, lock, now, hist>>

\* update: the row of the render inserted in the transaction; sqlite raises
\* IntegrityError for a session that has no row (foreign key) and for an id
\* or an index that is indexed already (primary key, unique).
UpdateInsert(t) ==
    /\ th[t].pc = "insert"
    /\ LET s == th[t].sid
           render_id == Head(th[t].todo)
           indexed == {e.render_index : e \in db.index[s]}
                      \cup {RenderIndex(r) : r \in th[t].inserts}
       IN  th' = [th EXCEPT ![t] =
                    IF ~db.rows[s].exists
                    THEN [@ EXCEPT !.pc = "release", !.err = "foreign_key", !.inserts = {}]
                    ELSE IF RenderIndex(render_id) \in indexed
                         THEN [@ EXCEPT !.pc = "release", !.err = "unique", !.inserts = {}]
                         ELSE [@ EXCEPT !.pc = "loop", !.todo = Tail(@),
                                        !.inserts = @ \cup {render_id}]]
    /\ UNCHANGED <<engine, db, held, lock, now, hist>>

\* update: the row of the session updated, the transaction committed.
UpdateRow(t) ==
    /\ th[t].pc = "loop" /\ th[t].todo = <<>>
    /\ db' = CommitUpdate(db, th[t].sid, held[th[t].sid], th[t].at, th[t].inserts)
    /\ th' = [th EXCEPT ![t].pc = "release"]
    /\ hist' = [hist EXCEPT !.synced = IF th[t].saw_row THEN @ \cup {th[t].sid} ELSE @]
    /\ UNCHANGED <<engine, held, lock, now>>

\* delete: the row deleted and committed.
DeleteRow(t) ==
    /\ th[t].pc = "locked" /\ th[t].op = "delete"
    /\ db' = DeleteRows(db, {th[t].sid})
    /\ th' = [th EXCEPT ![t].pc = "rmtree", ![t].expired = {th[t].sid}]
    /\ hist' = [hist EXCEPT !.synced = @ \ {th[t].sid}]
    /\ UNCHANGED <<engine, held, lock, now>>

\* cleanup_expired: the rows of the expired sessions deleted and committed.
CleanupSelect(t) ==
    /\ th[t].pc = "locked" /\ th[t].op = "cleanup"
    /\ LET expired_ids == {s \in StoreSessionIds :
                             db.rows[s].exists /\ IsExpired(th[t].at, db.rows[s].last)}
       IN  /\ db' = DeleteRows(db, expired_ids)
           /\ th' = [th EXCEPT ![t].pc = "rmtree", ![t].expired = expired_ids]
           /\ hist' = [hist EXCEPT !.synced = @ \ expired_ids]
    /\ UNCHANGED <<engine, held, lock, now>>

\* delete, cleanup_expired: the directories of the deleted sessions removed.
RemoveTree(t) ==
    /\ th[t].pc = "rmtree"
    /\ db' = RemoveTrees(db, th[t].expired)
    /\ th' = [th EXCEPT ![t].pc = "release"]
    /\ UNCHANGED <<engine, held, lock, now, hist>>

\* __len__: the rows counted.
CountRows(t) ==
    /\ th[t].pc = "locked" /\ th[t].op = "count"
    /\ th' = [th EXCEPT ![t].pc = "release"]
    /\ UNCHANGED <<engine, db, held, lock, now, hist>>

\* The `with self._lock:` block left, by its end or by an exception.
Release(t) ==
    /\ th[t].pc = "release"
    /\ lock' = IF lock = t THEN "none" ELSE lock
    /\ th' = [th EXCEPT ![t] = IdleThread]
    /\ UNCHANGED <<engine, db, held, now, hist>>

\* dispatch_tool renders an image into the session the handler holds.
HandlerStoreRender(s) ==
    /\ s \in Renderers
    /\ held[s].held
    /\ ~Busy(s)
    /\ Len(hist.returned[s]) < MaxRenders
    /\ LET session == SessionStoreRender(held[s], Len(hist.returned[s]) + 1)
       IN  /\ held' = [held EXCEPT ![s] = session]
           /\ hist' = [hist EXCEPT !.returned[s] = Append(@, session.current),
                                    !.synced = @ \ {s}]
    /\ UNCHANGED <<engine, db, th, lock, now>>

\* run_turn_stream appends a message to the history of the session.
HandlerAppend(s) ==
    /\ held[s].held
    /\ ~Busy(s)
    /\ Len(held[s].messages) < MaxMessages
    /\ held' = [held EXCEPT ![s].messages = Append(@, [role |-> "user", content |-> "t"])]
    /\ hist' = [hist EXCEPT !.synced = @ \ {s}]
    /\ UNCHANGED <<engine, db, th, lock, now>>

\* Time passes.
Tick ==
    /\ now < MaxTime
    /\ now' = now + 1
    /\ UNCHANGED <<engine, db, held, th, lock, hist>>

\* The process dies and is started again: the rows committed and the files
\* are what is left.
Crash ==
    /\ hist.crashes = 0
    /\ th' = [t \in Threads |-> IdleThread]
    /\ lock' = "none"
    /\ held' = [s \in StoreSessionIds |-> NotHeld]
    /\ hist' = [hist EXCEPT !.crashes = 1, !.synced = {}]
    /\ UNCHANGED <<engine, db, now>>

\* A render file is removed from the directory of the session.
LoseFile(s, render_id) ==
    /\ hist.lost = 0
    /\ db.files[s][render_id].written = "all"
    /\ lock = "none"
    /\ db' = [db EXCEPT !.files[s][render_id] = NoFile]
    /\ hist' = [hist EXCEPT !.lost = 1, !.synced = @ \ {s}]
    /\ UNCHANGED <<engine, held, th, lock, now>>

StoreStep(t) ==
    \/ Acquire(t)
    \/ CreateRow(t)
    \/ GetSelect(t)
    \/ GetRead(t)
    \/ UpdateSelect(t)
    \/ UpdateWriteBegin(t)
    \/ UpdateWriteEnd(t)
    \/ UpdateInsert(t)
    \/ UpdateRow(t)
    \/ DeleteRow(t)
    \/ CleanupSelect(t)
    \/ RemoveTree(t)
    \/ CountRows(t)
    \/ Release(t)

StorageNext ==
    \/ \E s \in StoreSessionIds : CallCreate(s)
    \/ \E s \in StoreSessionIds : CallGet(s)
    \/ \E t \in Threads, s \in StoreSessionIds : CallUpdate(t, s)
    \/ \E s \in StoreSessionIds : CallDelete(s)
    \/ CallCleanup
    \/ CallCount
    \/ \E t \in Threads : StoreStep(t)
    \/ \E s \in StoreSessionIds : HandlerStoreRender(s)
    \/ \E s \in StoreSessionIds : HandlerAppend(s)
    \/ Tick

StorageInit ==
    /\ EngineIdle
    /\ fn = NoCall

\* The store with a process that may die.
StorageSpec == StorageInit /\ [][StorageNext \/ Crash]_vars

\* The store with a directory from which a file may go.
ReloadSpec ==
    StorageInit /\ [][StorageNext \/ \E s \in StoreSessionIds, r \in RenderIds : LoseFile(s, r)]_vars

(***************************************************************************)
(* Observations of a request, used by the properties below.                *)
(***************************************************************************)
\* The engine is running for this posted message.
Active(q) ==
    IsStream(q) /\ q.pc \in {"awaiting_model", "build_start", "dispatch", "build_result"}

\* The turn has reached its terminal outcome.
TurnOver(q) == q.pc \in {"closing", "done"}

EventsOfType(q, type) == {i \in DOMAIN q.events : q.events[i].type = type}

TraceEventIndexes(q) == EventsOfType(q, "tool_start") \cup EventsOfType(q, "tool_result")

DispatchesInRound(q, turn) == {i \in DOMAIN q.dlog : q.dlog[i].turn = turn}

\* The last event the client received is of this type and says this.
LastEventIs(q, type, info) ==
    /\ q.events # <<>>
    /\ q.events[Len(q.events)].type = type
    /\ q.events[Len(q.events)].info = info

\* The kind of a terminal outcome: the type of the terminal event of the
\* stream, the status run_agent returns.
OutcomeKind(q) ==
    IF IsStream(q) THEN q.events[Len(q.events)].type ELSE q.status

\* The tool outcome for this id is in the history of the session.
OutcomeInHistory(q, id) ==
    \E i \in DOMAIN q.sess.messages :
        /\ q.sess.messages[i].kind \in {"tool_results", "tool_result"}
        /\ \E j \in DOMAIN q.sess.messages[i].ids : q.sess.messages[i].ids[j] = id

(***************************************************************************)
(* Properties.                                                             *)
(***************************************************************************)
\* C1: for every session id at most one turn is active at any time: while a
\* turn started by an earlier message to a session has not reached its
\* terminal outcome, no second run of the engine works on that session.
OneActiveTurnPerSession ==
    \A a, b \in Reqs :
        (a # b /\ Active(req[a]) /\ Active(req[b])) => req[a].sid # req[b].sid

\* C2: in every round-trip that ends with tool use, the calls are dispatched
\* one at a time in the order the provider emitted them: the j-th dispatch of
\* a round is the j-th call of the response, and the calls emitted before it
\* have their tool_result event by then (streaming engine).
DispatchedInEmissionOrder ==
    \A r \in Reqs :
        LET q == req[r]
        IN  \A j \in DOMAIN q.dlog :
               LET d == q.dlog[j]
                   earlier == {i \in DispatchesInRound(q, d.turn) : i < j}
               IN  /\ d.pos = Cardinality(earlier) + 1
                   /\ IsStream(q) =>
                        \A i \in earlier :
                           \E e \in EventsOfType(q, "tool_result") :
                              /\ q.events[e].id = q.dlog[i].id
                              /\ e <= d.at

\* C3: every turn terminates: with the provider and the tools answering, a
\* turn that has started reaches a terminal outcome, after at most
\* MAX_AGENT_TURNS provider calls, whatever the tool inputs and results are.
TurnTerminates ==
    /\ [](\A r \in Reqs : req[r].ncalls <= MaxAgentTurns)
    /\ \A r \in Reqs : (req[r].pc # "idle") ~> TurnOver(req[r])

\* C4: a response that ends with natural completion is followed by exactly
\* one turn_complete event carrying the reply text and the current render id
\* of the session (0: none), and nothing else: no tool of that response is
\* dispatched, the provider is not called again, no event follows.
NaturalCompletion ==
    \A r \in Reqs :
        LET q == req[r]
        IN  (IsStream(q) /\ q.stop = "end_turn") =>
               /\ TurnOver(q)
               /\ LastEventIs(q, "turn_complete", q.text)
               /\ q.events[Len(q.events)].rid = q.sess.current
               /\ Cardinality(EventsOfType(q, "turn_complete")) = 1
               /\ EventsOfType(q, "error") = {}
               /\ DispatchesInRound(q, q.turn) = {}
               /\ q.ncalls = q.turn + 1

\* C4 happens: a streamed turn completed after a render, on a response that
\* itself carried a tool call.
NaturalCompletionReached ==
    \E r \in Reqs :
        /\ IsStream(req[r]) /\ req[r].stop = "end_turn" /\ req[r].pc = "done"
        /\ req[r].sess.current # 0
        /\ req[r].resp # <<>>
        /\ req[r].text = "t"

\* C5: a response that ends with a stop condition that is neither natural
\* completion nor tool use is followed by exactly one error event (the CLI
\* loop returns the status "error") and the turn aborts: none of the calls
\* of that response is dispatched, the provider is not called again and no
\* event follows the error event.
UnexpectedStopAborts ==
    \A r \in Reqs :
        LET q == req[r]
        IN  q.stop = "other" =>
               /\ TurnOver(q)
               /\ DispatchesInRound(q, q.turn) = {}
               /\ q.ncalls = q.turn + 1
               /\ IsStream(q) =>
                    /\ LastEventIs(q, "error", "stop")
                    /\ Cardinality(EventsOfType(q, "error")) = 1
                    /\ EventsOfType(q, "turn_complete") = {}
               /\ ~IsStream(q) => (q.status = "error" /\ q.message = "stop")

\* C5 happens: a streamed turn was aborted in its second round-trip by an
\* unexpected stop whose response carried a tool call.
UnexpectedStopReached ==
    \E r \in Reqs :
        /\ IsStream(req[r]) /\ req[r].stop = "other" /\ req[r].pc = "done"
        /\ req[r].resp # <<>>
        /\ req[r].turn = 1

\* C6: a streaming turn whose every response requests tool use makes exactly
\* MAX_AGENT_TURNS provider calls and then ends with exactly one error
\* event, which names the budget.
BudgetExhaustedAfterMaxTurns ==
    \A r \in Reqs :
        LET q == req[r]
        IN  (IsStream(q) /\ TurnOver(q) /\ q.stop = "tool_use") =>
               /\ q.ncalls = MaxAgentTurns
               /\ LastEventIs(q, "error", "budget")
               /\ Cardinality(EventsOfType(q, "error")) = 1

\* C7: on every entry point, the outcome of an exhausted turn budget is of
\* another kind than the outcome of an unexpected stop condition.
BudgetOutcomeDistinct ==
    \A r \in Reqs :
        LET q == req[r]
        IN  (TurnOver(q) /\ q.stop = "tool_use" /\ q.turn = MaxAgentTurns) =>
               OutcomeKind(q) # OutcomeKind(UnexpectedStop(q))

\* C8: over all tool_start and tool_result events of one turn, all of its
\* round-trips included, seq strictly increases in the order of emission.
SeqStrictlyIncreasing ==
    \A r \in Reqs :
        \A i, j \in TraceEventIndexes(req[r]) :
            i < j => req[r].events[i].seq < req[r].events[j].seq

\* C9: within one turn the tool_use_ids of the tool_start events are
\* pairwise distinct, provider-supplied or fallback, and for each id the seq
\* of its tool_start is less than the seq of its tool_result.
ToolUseIdsDistinct ==
    \A r \in Reqs :
        LET ev == req[r].events
        IN  /\ \A i, j \in EventsOfType(req[r], "tool_start") :
                  i # j => ev[i].id # ev[j].id
            /\ \A i \in EventsOfType(req[r], "tool_start"),
                  j \in EventsOfType(req[r], "tool_result") :
                  ev[i].id = ev[j].id => ev[i].seq < ev[j].seq

\* C9 happens: a turn with two traced calls in different round-trips, both
\* with ids generated by the fallback.
ToolUseIdsDistinctReached ==
    \E r \in Reqs :
        LET ev == req[r].events
        IN  \E i, j \in EventsOfType(req[r], "tool_result") :
               /\ ev[i].turn # ev[j].turn
               /\ ev[i].id.src = "fallback" /\ ev[j].id.src = "fallback"

\* C10: every call requested in a streaming turn is traced and answered:
\* once the round of a tool-use response is over (the next provider call is
\* due or the turn has ended), each call of the response has had exactly one
\* tool_start event, then its dispatch, then exactly one tool_result event
\* with the same tool_use_id, and its outcome is in the history.
EveryCallTracedAndAnswered ==
    \A r \in Reqs :
        LET q == req[r]
            round == IF q.pc = "awaiting_model" \/ q.turn = MaxAgentTurns
                     THEN q.turn - 1 ELSE q.turn
            ev == q.events
        IN  (IsStream(q) /\ q.stop = "tool_use"
                /\ q.pc \in {"awaiting_model", "closing", "done"}) =>
               \A p \in DOMAIN q.resp :
                  \E d \in DispatchesInRound(q, round) :
                     /\ q.dlog[d].pos = p
                     /\ \A o \in DispatchesInRound(q, round) :
                           q.dlog[o].pos = p => o = d
                     /\ \E a \in EventsOfType(q, "tool_start"),
                          b \in EventsOfType(q, "tool_result") :
                           /\ ev[a].id = q.dlog[d].id /\ ev[b].id = q.dlog[d].id
                           /\ a <= q.dlog[d].at /\ q.dlog[d].at < b
                           /\ \A o \in EventsOfType(q, "tool_start") :
                                 ev[o].id = ev[a].id => o = a
                           /\ \A o \in EventsOfType(q, "tool_result") :
                                 ev[o].id = ev[b].id => o = b
                     /\ OutcomeInHistory(q, q.dlog[d].id)

\* C11: the free-text redaction pass terminates on every input: a call that
\* is in its loop returns.
RedactTextTerminates == (fn.op = "redact_text" /\ fn.pc = "loop") ~> (fn.pc = "returned")

\* C12: both redaction passes are idempotent: the structured pass applied to
\* its own output returns that output, and the free-text pass applied to the
\* text it returned returns that text.
RedactionIdempotent ==
    /\ fn = NoCall =>
          \A v \in ToolInputs :
              RedactStructured(RedactStructured(v).value).value = RedactStructured(v).value
    /\ (fn.op = "redact_text" /\ fn.run = 2 /\ fn.pc = "returned") => fn.text = fn.first

\* A text in which rules fired is returned redacted, and then redacted again.
RedactedTwice ==
    /\ fn.op = "redact_text" /\ fn.run = 2 /\ fn.pc = "returned"
    /\ fn.first # fn.raw
    /\ fn.first_rules # {}

\* C13: when the text of a tool result contains an authorization header
\* with a bearer token, the engine produces the tool_result event of that
\* call (every tool_start event then has its tool_result event, the newest
\* being this one); the event carries the header as
\* "authorization: bearer [REDACTED]", the token in no place, and the name of
\* the auth_header rule.
AuthHeaderResultTraced ==
    LET q == req["r1"]
        results == EventsOfType(q, "tool_result")
    IN  (/\ q.pc = "build_result"
         /\ \E i \in DOMAIN ResultText(q.result) : ResultText(q.result)[i] = "Authorization:")
        ~> (/\ Cardinality(results) = Cardinality(EventsOfType(q, "tool_start"))
            /\ \E i \in results :
                  LET text == q.events[i].trace.text
                  IN  /\ \A j \in results : j <= i
                      /\ \E j \in DOMAIN text :
                            /\ j + 2 <= Len(text)
                            /\ SubSeq(text, j, j + 2)
                                  = <<"authorization:", "bearer", "[REDACTED]">>
                      /\ \A j \in DOMAIN text : text[j] # "tok"
                      /\ "auth_header" \in q.events[i].trace.rules)

\* C14: every occurrence of a secret environment value in a text is replaced
\* by "[REDACTED_ENV]" in the text the redaction returns, also when the value
\* has the shape of a vendor API key that a pattern rule matches.
EnvValuesReplaced ==
    (fn.op = "redact_text" /\ fn.run = 1 /\ fn.pc = "returned") =>
        \A i \in DOMAIN fn.raw :
            fn.raw[i] \in EnvSecretValues =>
                i \in DOMAIN fn.text /\ fn.text[i] = "[REDACTED_ENV]"

\* The strings a value holds under a sensitive key, and those it holds
\* elsewhere.
RECURSIVE StringsIn(_)
StringsIn(value) ==
    CASE value.t = "str" -> {value.s}
      [] value.t = "obj" -> {}
      [] value.t = "dict" ->
            UNION {StringsIn(value.items[i].v) : i \in DOMAIN value.items}
      [] OTHER -> UNION {StringsIn(value.items[i]) : i \in DOMAIN value.items}

RECURSIVE SecretStrings(_)
SecretStrings(value) ==
    CASE value.t = "dict" ->
            UNION {IF IsSensitiveKey(value.items[i].k) THEN StringsIn(value.items[i].v)
                   ELSE SecretStrings(value.items[i].v) : i \in DOMAIN value.items}
      [] value.t = "list" -> UNION {SecretStrings(value.items[i]) : i \in DOMAIN value.items}
      [] OTHER -> {}

RECURSIVE OpenStrings(_)
OpenStrings(value) ==
    CASE value.t = "str" -> {value.s}
      [] value.t = "dict" ->
            UNION {IF IsSensitiveKey(value.items[i].k) THEN {}
                   ELSE OpenStrings(value.items[i].v) : i \in DOMAIN value.items}
      [] value.t = "list" -> UNION {OpenStrings(value.items[i]) : i \in DOMAIN value.items}
      [] OTHER -> {}

WordsOf(text) == {text[i] : i \in DOMAIN text}

\* C15: no value held under a sensitive key of a tool input, at any depth and
\* whether or not the input can be dumped as JSON, is in a field of the
\* tool_start payload (summary or full input) or of the trace record.
SensitiveValuesNotTraced ==
    fn.op = "tool_start" =>
        \A s \in SecretStrings(fn.tool_input) \ OpenStrings(fn.tool_input) :
            /\ s \notin WordsOf(fn.payload.input)
            /\ s \notin WordsOf(fn.payload.input_full)
            /\ s \notin WordsOf(fn.record.input_summary)
            /\ s \notin WordsOf(fn.record.input_full_untruncated)

\* C16: what update() has written to the durable store holds no tool input
\* and no tool result text in unredacted form: every such text in the
\* persisted history is one the redaction rules leave as it is.
PersistedHistoryRedacted ==
    \A s \in SessionIds :
        \A i \in DOMAIN store[s].messages :
            \A j \in DOMAIN store[s].messages[i].content :
                RedactPass(store[s].messages[i].content[j]).text
                    = store[s].messages[i].content[j]

\* The characters of a string, one class name for each.
RECURSIVE Chars(_)
Chars(value) ==
    IF value = <<>> THEN <<>>
    ELSE [i \in 1..Head(value).n |-> Head(value).c] \o Chars(Tail(value))

\* C17: _truncate_to_bytes(s, N) returns a string of at most N bytes, made of
\* the first characters of s, whole, followed by the marker or a prefix of
\* it; the flag is true exactly when s is longer than N bytes, and s is
\* returned as it is otherwise.
TruncationWithinCeiling ==
    (fn.op = "truncate" /\ fn.pc = "returned") =>
        LET s == Chars(fn.value)
            out == Chars(fn.text)
        IN  /\ Utf8Size(fn.text) <= fn.max_bytes
            /\ \E k \in 0..Len(s), m \in 0..SuffixBytes :
                  out = SubSeq(s, 1, k) \o [i \in 1..m |-> "suffix"]
            /\ fn.truncated <=> Utf8Size(fn.value) > fn.max_bytes
            /\ ~fn.truncated => fn.text = fn.value

\* A string is cut before a character of several bytes that does not fit:
\* characters of s are kept, the marker follows, and bytes are left over.
TruncatedBeforeWideChar ==
    /\ fn.op = "truncate" /\ fn.pc = "returned"
    /\ fn.truncated
    /\ Len(fn.text) >= 2
    /\ Utf8Size(fn.text) < fn.max_bytes

\* A trace payload has been built and finalized.
TraceReturned == fn.op = "trace" /\ fn.pc = "returned"

\* C18: every tool_start and tool_result event that is emitted is at most
\* 65,536 bytes when the server serializes it with json.dumps.
EventWithinCeiling ==
    TraceReturned => ShippedBytes(fn.payload) <= MaxEventBytes

\* A result event that was over the ceiling when it was measured has been
\* returned.
OversizedEventReturned ==
    /\ TraceReturned
    /\ fn.shape = "result"
    /\ fn.measured.event_bytes > MaxEventBytes

\* The measured event with its result text dropped and flagged, its size
\* recomputed: what would be returned if nothing more were dropped.
WithoutResultText(m) ==
    SizeLoop([m EXCEPT !.event_truncated = TRUE,
                       !.result_text = None,
                       !.result_truncated = m.result_truncated \/ m.result_text.some],
             SizePasses)

\* C19: when the event with its fields cut to their limits is over the
\* ceiling, the result text is dropped first and the full input only when
\* the event without the result text is still over the ceiling; a dropped
\* field has its *_truncated flag set and event_truncated is set.  When the
\* event is not over the ceiling neither field is dropped.
DropsInPriorityOrder ==
    TraceReturned =>
        LET m == fn.measured
            p == fn.payload
        IN  IF ShippedBytes(m) > MaxEventBytes
            THEN /\ p.event_truncated
                 /\ m.result_text.some => ~p.result_text.some /\ p.result_truncated
                 /\ m.input_full.some /\ ~p.input_full.some =>
                        /\ p.input_truncated
                        /\ ShippedBytes(WithoutResultText(m)) > MaxEventBytes
                 /\ ShippedBytes(WithoutResultText(m)) <= MaxEventBytes =>
                        p.input_full = m.input_full
            ELSE /\ p.result_text = m.result_text
                 /\ p.input_full = m.input_full

\* A result text that its own limit left whole has been dropped because the
\* event was over the ceiling.
WholeResultTextDropped ==
    /\ TraceReturned
    /\ fn.measured.result_text.some
    /\ ~fn.measured.result_truncated
    /\ ~fn.payload.result_text.some

\* C20: the event_bytes of a finalized event is the number of bytes of the
\* serialization of that same event, the digits of event_bytes included:
\* each of the two loops reaches that fixed point within its SizePasses
\* passes, the first when nothing is dropped, the second after fields were
\* dropped and flags set.
NoStaleSize ==
    fn.op = "trace" /\ fn.pc \in {"measured", "returned"} =>
        fn.payload.event_bytes = ShippedBytes(fn.payload)

\* An event has been returned after a drop, with a size other than the one
\* measured before the drop.
SizeRecomputedAfterDrop ==
    /\ TraceReturned
    /\ fn.measured.event_bytes > MaxEventBytes
    /\ fn.payload.event_truncated
    /\ fn.payload.event_bytes < fn.measured.event_bytes

\* The strings of a trace payload.
PayloadStrings(p) ==
    {p.tool, p.tool_use_id, p.input, p.input_full.s, p.result_summary.s,
     p.result_text.s, p.error.name, p.error.message}

\* C21: the tool_result event of a result made of content blocks carries the
\* text of its text blocks and no data of another block; every block that is
\* not text has one entry in artifacts.omitted, with its media type, the
\* decoded size of its data and the reason binary_not_streamed; has_binary
\* is true exactly when there is such a block.
BinaryNeverInlined ==
    TraceReturned /\ fn.content.kind = "blocks" =>
        LET p == fn.payload
            blocks == fn.content.blocks
            binary == SelectSeq(blocks, LAMBDA b : b.type # "text")
            texts == SelectSeq(blocks, LAMBDA b : b.type = "text")
        IN  /\ \A value \in PayloadStrings(p) :
                  \A i \in DOMAIN value : value[i].c \notin {"b64", "pad"}
            /\ p.result_text.some =>
                  p.result_text.s = JoinLines([i \in DOMAIN texts |-> texts[i].text])
            /\ p.has_binary = (binary # <<>>)
            /\ Len(p.omitted) = Len(binary)
            /\ \A i \in DOMAIN binary :
                  p.omitted[i] = [kind |-> binary[i].media_type, has_size |-> TRUE,
                                  size_bytes |-> EstimateBase64DecodedSize(binary[i].data),
                                  reason |-> "binary_not_streamed"]

\* A tool_result event has been returned for a rendered image of more bytes
\* than a base64 group, with an entry of that size in its manifest.
ImageResultTraced ==
    /\ TraceReturned
    /\ fn.content.kind = "blocks"
    /\ fn.payload.has_binary
    /\ fn.payload.result_text.some
    /\ \E i \in DOMAIN fn.payload.omitted : fn.payload.omitted[i].size_bytes > 3

\* A thread is inside a `with self._lock:` block.
Inside(t) == th[t].pc \notin {"idle", "waiting"}

\* C22: the ids store_render returns for a session are v1, v2, ... with a
\* strictly increasing index, none returned twice, whatever updates and
\* reloads come between, also when a render file is missing at a reload.
RenderIdsNeverReused ==
    \A s \in StoreSessionIds :
        \A i, j \in DOMAIN hist.returned[s] :
            i < j => RenderIndex(hist.returned[s][i]) < RenderIndex(hist.returned[s][j])

\* C23: when cleanup_expired is done, every session whose persisted
\* last_activity was more than the TTL before the time of the sweep has no
\* row, no indexed render and no file, and every other session has the row,
\* the indexed renders and the files it had.
ExpiredSessionsRemoved ==
    \A t \in Threads :
        th[t].op = "cleanup" /\ th[t].pc = "release" =>
            \A s \in StoreSessionIds :
                LET was == th[t].before
                IN  IF was.rows[s].exists /\ th[t].at - was.rows[s].last > TtlTicks
                    THEN /\ ~db.rows[s].exists
                         /\ db.index[s] = {}
                         /\ \A r \in RenderIds : db.files[s][r] = NoFile
                    ELSE /\ db.rows[s] = was.rows[s]
                         /\ db.index[s] = was.index[s]
                         /\ db.files[s] = was.files[s]

\* A sweep has removed a session that had an indexed render and a file, and
\* has kept a session that was idle for exactly the TTL.
SweepRemovedOneKeptOther ==
    \E t \in Threads :
        /\ th[t].op = "cleanup" /\ th[t].pc = "release"
        /\ \E s \in StoreSessionIds :
              /\ th[t].before.index[s] # {}
              /\ \E r \in RenderIds : th[t].before.files[s][r].written = "all"
              /\ ~db.rows[s].exists
        /\ \E s \in StoreSessionIds :
              /\ db.rows[s].exists
              /\ th[t].at - db.rows[s].last = TtlTicks

\* C24: a get(id) that follows update(session) with no other operation of
\* the store in between returns a session with the messages, the renders
\* (ids and bytes) and the current render id of `session`.
UpdateThenGetReturnsSession ==
    \A t \in Threads :
        th[t].op = "get" /\ th[t].pc = "release" /\ th[t].again /\ th[t].saw_row =>
            /\ held[th[t].sid].messages = th[t].prior.messages
            /\ held[th[t].sid].renders = th[t].prior.renders
            /\ held[th[t].sid].current = th[t].prior.current

\* C25: update(session) called again with the same session, nothing in
\* between, inserts no row, writes no file and leaves the index and the
\* files as they were; no update raises a uniqueness error.
UpdateIdempotent ==
    \A t \in Threads :
        /\ th[t].err # "unique"
        /\ th[t].op = "update" /\ th[t].pc = "release" /\ th[t].again =>
              /\ th[t].err = "none"
              /\ th[t].wrote = {}
              /\ th[t].inserts = {}
              /\ db.index = th[t].before.index
              /\ db.files = th[t].before.files

\* A session with an indexed render has been updated twice in a row.
UpdatedTwice ==
    \E t \in Threads :
        /\ th[t].op = "update" /\ th[t].pc = "release" /\ th[t].again
        /\ held[th[t].sid].renders # {}
        /\ db.index[th[t].sid] # {}

\* C26: whenever the process dies during update(), every indexed render and
\* every persisted current render id refers to a file that is fully
\* written; at worst a file is left that nothing refers to.
NoDanglingReference ==
    \A s \in StoreSessionIds :
        /\ \A e \in db.index[s] : db.files[s][e.render_id].written = "all"
        /\ db.rows[s].exists /\ db.rows[s].current # NoRenderId =>
              db.files[s][db.rows[s].current].written = "all"

\* The process has died while update() was writing a file: the part of the
\* file is there and no row refers to it.
CrashLeftOrphanFile ==
    /\ hist.crashes = 1
    /\ \A t \in Threads : th[t].pc = "idle"
    /\ \E s \in StoreSessionIds, r \in RenderIds :
          /\ db.files[s][r].written = "part"
          /\ r \notin ExistingRenderIds(db, s)

\* C27: no two operations of the store are inside the lock at the same
\* time; a session that had its row when an update() of it began keeps it
\* while that update is under way, and an update() that ends without an
\* error has persisted the session it was given in full.
StoreOperationsExclusive ==
    /\ \A t1, t2 \in Threads : Inside(t1) /\ Inside(t2) => t1 = t2
    /\ \A t \in Threads : Inside(t) => lock = t
    /\ \A t \in Threads :
          th[t].op = "update" /\ th[t].saw_row =>
              /\ th[t].pc \in {"loop", "writing", "insert"} => db.rows[th[t].sid].exists
              /\ th[t].pc = "release" /\ th[t].err = "none" =>
                    /\ db.rows[th[t].sid].exists
                    /\ db.rows[th[t].sid].messages_json
                         = MessagesJson(held[th[t].sid].messages)
                    /\ db.rows[th[t].sid].current = held[th[t].sid].current
                    /\ {e.id : e \in held[th[t].sid].renders}
                         \subseteq ExistingRenderIds(db, th[t].sid)

\* The sweep waits for the lock while a thread of its own is writing the
\* file of a render in update().
SweepWaitsForUpdate ==
    /\ th["loop"].op = "cleanup" /\ th["loop"].pc = "waiting"
    /\ th["worker"].op = "update" /\ th["worker"].pc = "writing"
    /\ lock = "worker"

\* The outcome `text` of the call `id` is among the tool results gathered
\* for the provider or in the history.
Answered(q, id, text) ==
    \/ \E i \in DOMAIN q.tool_results :
          q.tool_results[i] = id /\ q.result_contents[i] = text
    \/ \E i \in DOMAIN q.sess.messages :
          /\ q.sess.messages[i].role = "tool"
          /\ q.sess.messages[i].ids = <<id>>
          /\ q.sess.messages[i].content = <<text>>

\* The renders and the current render id of the session are the same.
SameArtifacts(q1, q2) ==
    q1.sess.renders = q2.sess.renders /\ q1.sess.current = q2.sess.current

\* C28: the dispatch of a name that is no tool returns the text
\* `Unknown tool: <name>`, raises nothing, leaves the renders and the
\* current render id of the session alone and does not end the turn: the
\* text becomes the tool result of the call and the loop goes on to the next
\* call or the next provider call (or stops on the turn budget).
UnknownToolAnswered ==
    /\ [][LET q == req["r1"]
              q2 == req["r1"]'
              sentinel == <<"Unknown", "tool:", q.order[q.k].name>>
          IN  /\ (q.pc = "dispatch" /\ q.order[q.k].name \notin ToolNames /\ q2 # q) =>
                    /\ SameArtifacts(q, q2)
                    /\ q2.status # "raised"
                    /\ IF IsStream(q)
                       THEN /\ q2.pc = "build_result"
                            /\ q2.result = "unknown_tool"
                            /\ q2.rtext = sentinel
                            /\ q2.events = q.events
                       ELSE /\ Answered(q2, q.tool_use_id, sentinel)
                            /\ q2.pc \in {"dispatch", "awaiting_model", "done"}
                            /\ q2.pc = "done" => q2.status = "max_turns"
              /\ (q.pc = "build_result" /\ q.result = "unknown_tool"
                    /\ q2.pc # "build_result") =>
                    /\ SameArtifacts(q, q2)
                    /\ Answered(q2, q.tool_use_id, sentinel)
                    /\ q2.pc \in {"build_start", "awaiting_model", "closing"}
                    /\ q2.pc = "closing" => LastEventIs(q2, "error", "budget")]_vars
    /\ [](req["r1"].pc = "build_result" /\ req["r1"].result = "unknown_tool" =>
             /\ ~req["r1"].changed
             /\ ~RedactPass(req["r1"].rtext).changed)

\* A streamed turn has answered a call of an unknown tool with the sentinel
\* and is waiting for the next response of the provider.
UnknownToolAnsweredReached ==
    LET q == req["r1"]
    IN  /\ IsStream(q) /\ q.pc = "awaiting_model" /\ q.turn = 1
        /\ \E i \in EventsOfType(q, "tool_result") :
              /\ q.events[i].info = UnknownTool
              /\ q.events[i].trace.text = <<"Unknown", "tool:", UnknownTool>>
              /\ Answered(q, q.events[i].id, <<"Unknown", "tool:", UnknownTool>>)

\* C30: validate_visual dispatched on a session without a current render
\* returns the text `No rendered image available. Render a diagram first.`,
\* does not reach the validator, leaves the renders and the current render
\* id alone, and no render_ready and no validate_result event is emitted
\* for the call; no such event ever refers to a render that does not exist.
NoRenderSentinel ==
    /\ [][LET q == req["r1"]
              q2 == req["r1"]'
              sentinel == <<"No", "rendered", "image">>
          IN  (q.pc = "dispatch" /\ q.order[q.k].name = "validate_visual"
                 /\ q.sess.current = 0 /\ q2 # q) =>
                    /\ SameArtifacts(q, q2)
                    /\ q2.status # "raised"
                    /\ IF IsStream(q)
                       THEN /\ q2.pc = "build_result"
                            /\ q2.result = "no_image"
                            /\ q2.rtext = sentinel
                            /\ q2.events = q.events
                       ELSE Answered(q2, q.tool_use_id, sentinel)]_vars
    /\ [](LET q == req["r1"]
              refs == EventsOfType(q, "render_ready") \cup EventsOfType(q, "validate_result")
          IN  /\ \A j \in refs : q.events[j].rid # 0
              /\ \A i \in EventsOfType(q, "tool_result") :
                    q.events[i].trace.text = <<"No", "rendered", "image">> =>
                        \A j \in refs : q.events[j].id # q.events[i].id)

\* A streamed turn has answered validate_visual with the sentinel and gone
\* on to the next response of the provider.
NoRenderSentinelReached ==
    LET q == req["r1"]
    IN  /\ IsStream(q) /\ q.pc = "awaiting_model" /\ q.sess.current = 0
        /\ \E i \in EventsOfType(q, "tool_result") :
              /\ q.events[i].info = "validate_visual"
              /\ q.events[i].trace.text = <<"No", "rendered", "image">>
              /\ Answered(q, q.events[i].id, <<"No", "rendered", "image">>)

\* The texts _render returns when the backend reports a failure.
RenderFailures == {"render_failed", "render_failed_auth"}

\* C29: when the backend of a render reports a failure, dispatch_tool
\* returns the text of the failure and raises nothing, no render is stored,
\* the current render id stays, no render_ready event is emitted, and the
\* turn goes on: the text becomes the tool result of the call.
RenderFailureFedBack ==
    /\ [][LET q == req["r1"]
              q2 == req["r1"]'
          IN  /\ (q.pc = "dispatch" /\ q.order[q.k].name = "render_tikz"
                    /\ q2.pc = "build_result" /\ q2.result \in RenderFailures) =>
                    /\ SameArtifacts(q, q2)
                    /\ q2.events = q.events
                    /\ SubSeq(q2.rtext, 1, 2) = <<"Render", "failed">>
              /\ (q.pc = "dispatch" /\ q.order[q.k].name = "render_tikz" /\ ~IsStream(q)
                    /\ q2 # q /\ q2.status # "raised" /\ q2.result \in RenderFailures) =>
                    /\ SameArtifacts(q, q2)
                    /\ Answered(q2, q.tool_use_id, ResultText(q2.result))
              /\ (q.pc = "build_result" /\ q.result \in RenderFailures
                    /\ q2.pc # "build_result") =>
                    /\ SameArtifacts(q, q2)
                    /\ Answered(q2, q.tool_use_id, ResultText(q.result))
                    /\ q2.pc \in {"build_start", "awaiting_model", "closing"}
                    /\ q2.pc = "closing" => LastEventIs(q2, "error", "budget")]_vars
    /\ (req["r1"].pc = "build_result" /\ req["r1"].result \in RenderFailures)
          ~> (req["r1"].pc # "build_result")

\* C31: in any interleaving of turns on two sessions, a step of the turn on
\* session A changes neither the row nor the renders nor the current render
\* id of another session, in the store or in the object another turn holds;
\* validate_visual and save_diagram read the current render of the session
\* they were given and a render reads none.
SessionsIsolated ==
    [][\A r \in Reqs :
          LET q == req[r]
              q2 == req[r]'
          IN  q2 # q =>
                /\ \A o \in Reqs \ {r} : req[o]' = req[o]
                /\ \A b \in StoreSessionIds \ {q2.sid} : store[b]' = store[b]
                /\ (q.pc = "dispatch" /\ q2.pc = "build_result") =>
                      IF q.order[q.k].name \in {"validate_visual", "save_diagram"}
                      THEN /\ q2.used = q.sess.current
                           /\ q2.used # 0 => q2.used \in q.sess.renders
                           /\ SameArtifacts(q, q2)
                      ELSE q2.used = 0]_vars

\* Two turns on two sessions have each rendered and persisted one image,
\* and each session holds its own render only.
BothSessionsRendered ==
    /\ req["r1"].sid = "s1" /\ req["r2"].sid = "s2"
    /\ req["r1"].sess.renders = {1} /\ req["r2"].sess.renders = {1}
    /\ store["s1"].renders = {1} /\ store["s2"].renders = {1}

\* The trace records the session holds for a tool_use_id.
TracesOf(q, id) == {t \in q.sess.traces : t.id = id}

\* C32: the session holds exactly one trace record per tool_use_id: once
\* the start phase of a call has run there is one record for its id, with
\* empty result fields until the result phase has run, and then one record
\* with the tool and the input summary of the start record and the result
\* fields; no trace record is an entry of the message history.
OneTraceRecordPerCall ==
    \A r \in Reqs :
        LET q == req[r]
        IN  IsStream(q) =>
              /\ (q.stop = "tool_use" /\ q.k >= 1
                    /\ q.pc \in {"dispatch", "build_result", "closing", "done"}) =>
                    /\ Cardinality(TracesOf(q, q.tool_use_id)) = 1
                    /\ q.pc \in {"dispatch", "build_result"} =>
                          \A t \in TracesOf(q, q.tool_use_id) :
                              /\ t.phase = "start" /\ t.status = "none" /\ t.result = <<>>
                              /\ t.tool = q.order[q.k].name
              /\ \A i \in EventsOfType(q, "tool_result") :
                    /\ Cardinality(TracesOf(q, q.events[i].id)) = 1
                    /\ \A t \in TracesOf(q, q.events[i].id) :
                          /\ t.phase = "result" /\ t.status = "ok"
                          /\ t.tool = q.events[i].info
                          /\ t.result = q.events[i].trace.text
                          /\ \A j \in EventsOfType(q, "tool_start") :
                                q.events[j].id = q.events[i].id =>
                                    t.input = q.events[j].trace.text
              /\ \A m \in DOMAIN q.sess.messages :
                    q.sess.messages[m].kind \in {"text", "content", "tool_results", "tool_result"}

IsPrefix(s, t) == Len(s) <= Len(t) /\ SubSeq(t, 1, Len(s)) = s

\* C33: the message history is append-only within a turn: at every step of
\* a streaming turn the session's message sequence before the step is a
\* prefix of the sequence after it (a turn begins with the sequence read
\* from the store); no entry is removed, reordered or rewritten.
HistoryAppendOnly ==
    [][\A r \in Reqs :
          /\ (IsStream(req[r]) /\ req[r].pc # "idle") =>
                IsPrefix(req[r].sess.messages, req'[r].sess.messages)
          /\ (req[r].pc = "idle" /\ IsStream(req'[r])) =>
                /\ IsPrefix(store[req'[r].sid].messages, req'[r].sess.messages)
                /\ Len(req'[r].sess.messages) = Len(store[req'[r].sid].messages) + 1]_vars

\* A second turn of a session has appended the provider's tool calls and
\* their results after the history of the first.
HistoryGrewOverTwoTurns ==
    /\ req["r1"].pc = "done" /\ IsStream(req["r1"])
    /\ req["r2"].pc = "done" /\ IsStream(req["r2"])
    /\ Len(req["r1"].sess.messages) >= 2
    /\ Len(req["r2"].sess.messages) >= Len(req["r1"].sess.messages) + 3
    /\ \E i \in DOMAIN req["r2"].sess.messages :
          req["r2"].sess.messages[i].kind \in {"tool_results", "tool_result"}

\* The highest render number of a set of renders (0: there is none).
Latest(renders) == IF renders = {} THEN 0 ELSE CHOOSE n \in renders : \A m \in renders : m <= n

\* C34: the current artifact id of a session is the id of its most recently
\* produced artifact: null exactly when the session has no artifact, and
\* otherwise the artifact of the highest index, in the session a turn holds
\* in memory and in the state persisted by update().
CurrentIsLatestArtifact ==
    /\ \A r \in Reqs :
          IsStream(req[r]) => req[r].sess.current = Latest(req[r].sess.renders)
    /\ \A s \in SessionIds :
          store[s].exists => store[s].current = Latest(store[s].renders)

\* `if session.current_render_id != prev_render_id and session.current_render_id`:
\* the engine emits render_ready after a dispatch.
RenderReadyDue(prev_render_id, session) ==
    session.current # prev_render_id /\ session.current # NoRenderId

\* C35: a successful render dispatch adds exactly one new artifact to the
\* session and makes it current, and the engine then emits the render_ready
\* event that carries the id of that new artifact.
RenderAnnounced ==
    [][\A s \in StoreSessionIds :
          Len(hist'.returned[s]) = Len(hist.returned[s]) + 1 =>
              /\ {e.id : e \in held'[s].renders} \ {e.id : e \in held[s].renders}
                    = {held'[s].current}
              /\ RenderReadyDue(held[s].current, held'[s])]_vars

\* C36: a render is durable before the client hears of it: whenever a
\* render_ready event for render id r of session s has been relayed, the
\* store holds artifact r of s with the bytes that render produced, so that
\* a fetch of the artifact at any later time returns those bytes.
RenderDurableWhenAnnounced ==
    \A r \in Reqs :
        LET q == req[r]
        IN  IsStream(q) =>
              \A i \in EventsOfType(q, "render_ready") :
                  store[q.sid].exists =>
                      \E j \in DOMAIN q.dlog :
                          /\ q.dlog[j].at = i - 1
                          /\ [id |-> q.events[i].rid, bytes |-> ImageOf(r, j)]
                                \in StoreGet(store, q.sid).image

\* C37: every turn started through the message endpoint ends with the
\* session being persisted: however the turn ends (turn_complete, an error
\* event, an exception in the engine or a tool, the client abandoning the
\* stream), update(session) runs after the last event, and the user message
\* and every history entry appended before the end are in the store if the
\* session still exists.
TurnEndsPersisted ==
    [][\A r \in Reqs :
          (IsStream(req[r]) /\ req[r].pc # "done" /\ req'[r].pc = "done") =>
              /\ req[r].pc = "closing"
              /\ req'[r].events = req[r].events
              /\ req'[r].sess.messages = req[r].sess.messages
              /\ store'[req[r].sid].exists =>
                    /\ store'[req[r].sid].messages = req[r].sess.messages
                    /\ \E i \in DOMAIN req[r].sess.messages :
                          /\ req[r].sess.messages[i].role = "user"
                          /\ req[r].sess.messages[i].kind = "text"]_vars

\* A turn the client abandoned after a tool was dispatched has been persisted.
AbandonedTurnPersisted ==
    LET q == req["r1"]
    IN  /\ q.pc = "done" /\ q.status = "abandoned"
        /\ q.dlog # <<>>
        /\ Len(q.sess.messages) >= 2
        /\ store[q.sid].messages = q.sess.messages

\* A turn that an exception in a tool ended has been persisted.
RaisedTurnPersisted ==
    LET q == req["r1"]
    IN  /\ q.pc = "done" /\ IsStream(q)
        /\ LastEventIs(q, "error", "exception")
        /\ q.dlog # <<>>
        /\ store[q.sid].messages = q.sess.messages

TerminalEvents(q) == EventsOfType(q, "turn_complete") \cup EventsOfType(q, "error")

\* C38: the event stream of a turn that is consumed to its end contains
\* exactly one terminal event (turn_complete or error), and that event is
\* the last of the stream, also when the engine, the telemetry code or a
\* dispatched tool raises an exception part-way through the turn; before
\* the end no terminal event has been relayed.
OneTerminalEventLast ==
    \A r \in Reqs :
        LET q == req[r]
        IN  /\ (IsStream(q) /\ TurnOver(q) /\ q.status # "abandoned") =>
                  TerminalEvents(q) = {Len(q.events)}
            /\ Active(q) => TerminalEvents(q) = {}

\* The telemetry code raised before any tool was dispatched, after text had
\* been relayed, and the stream ended with the error event.
TelemetryRaisedStreamEnded ==
    LET q == req["r1"]
    IN  /\ IsStream(q) /\ q.pc = "done"
        /\ ~sessionHasTraces /\ q.stop = "tool_use" /\ q.dlog = <<>>
        /\ Len(q.events) >= 2
        /\ LastEventIs(q, "error", "exception")
        /\ TerminalEvents(q) = {Len(q.events)}

\* The positions <<message, entry>> of the tool calls an assistant message
\* names, and of the tool results in the history.
InvocationsIn(messages) ==
    {<<i, j>> : i \in {x \in DOMAIN messages : messages[x].role = "assistant"},
                j \in 1..MaxToolCalls} \cap
    {p \in (DOMAIN messages) \X (1..MaxToolCalls) : p[2] \in DOMAIN messages[p[1]].ids}

ResultsIn(messages) ==
    {p \in (DOMAIN messages) \X (1..MaxToolCalls) :
        /\ messages[p[1]].kind \in {"tool_results", "tool_result"}
        /\ p[2] \in DOMAIN messages[p[1]].ids}

WellFormedHistory(messages) ==
    /\ \A c \in InvocationsIn(messages) :
          Cardinality({p \in ResultsIn(messages) :
                          /\ p[1] > c[1]
                          /\ messages[p[1]].ids[p[2]] = messages[c[1]].ids[c[2]]}) = 1
    /\ \A p \in ResultsIn(messages) :
          \E c \in InvocationsIn(messages) :
              /\ c[1] < p[1]
              /\ messages[c[1]].ids[c[2]] = messages[p[1]].ids[p[2]]

\* C39: the history persisted at the end of a turn is well-formed for the
\* provider: every tool invocation recorded in an assistant message has
\* exactly one tool result with the same id later in the history, and every
\* tool result refers to an invocation recorded earlier, whichever way the
\* turn ended and also when the provider gave an empty tool-call id.
PersistedHistoryWellFormed ==
    \A r \in Reqs :
        LET q == req[r]
        IN  (IsStream(q) /\ q.pc = "done" /\ store[q.sid].exists) =>
                WellFormedHistory(store[q.sid].messages)

\* The session was created and its row has been removed by delete or by
\* cleanup_expired, whose removal of the directory has run as well.
Removed(s) ==
    /\ s \in hist.created
    /\ ~db.rows[s].exists
    /\ \A t \in Threads :
          /\ ~(th[t].op = "create" /\ th[t].sid = s /\ th[t].pc \in {"waiting", "locked"})
          /\ ~(th[t].pc = "rmtree" /\ s \in th[t].expired)

\* C40: removal of a session is final and complete: once delete or
\* cleanup_expired has removed a session nothing of it remains in durable
\* storage: no session row, no artifact index entry, no render file, also
\* when a turn that was in flight calls update() for it afterwards.
RemovalFinalAndComplete ==
    \A s \in StoreSessionIds :
        Removed(s) =>
            /\ db.index[s] = {}
            /\ \A r \in RenderIds : db.files[s][r] = NoFile

====
